---- MODULE Spec2Model ----
(***************************************************************************)
(* Babel Player: the lyrics document (src/src/lyrics.rs), the structural   *)
(* editor (src/src/lyrics_editor.rs) and the active-window rendering of    *)
(* the player (src/src/app.rs).                                            *)
(*                                                                         *)
(* Conventions.  A Rust Vec is a TLA+ sequence; the indices the program    *)
(* stores or collects (word indices, button indices) are kept 0-based as   *)
(* in the source, and position i of a Vec v is v[i + 1].  Option<T> is a   *)
(* sequence of length 0 (None) or 1 (Some).  A Duration is its number of   *)
(* milliseconds.  Uuid::new_v4() is a source of values never returned      *)
(* before: a counter per use (languages, lines).  A Rust panic on the UI   *)
(* thread ends the process: the variable panicked records it and no        *)
(* action is enabled afterwards.                                           *)
(***************************************************************************)
EXTENDS Integers, Sequences, FiniteSets, TLC

VARIABLES
    lyrics,          \* LyricsEditor.lyrics : Option<BabelLyrics>
    language_uuids,  \* how many Uuid::new_v4() values became language ids
    line_uuids,      \* how many Uuid::new_v4() values became line uuids
    panicked,        \* TRUE once an unwrap / index panic ended the process
    last,            \* the handler that ran in the last step, with its inputs
    app_lyrics,               \* BabelPlayerApp.lyrics : Option<BabelLyrics>
    player_timestamp,         \* BabelPlayerApp.player_timestamp
    show_main_lyrics_window,  \* BabelPlayerApp.show_main_lyrics_window
    show_captions_window,     \* BabelPlayerApp.show_captions_window
    lyrics_window,            \* what the last update painted in "Lyrics"
    captions_window,          \* what the last update painted in "Captions"
    disk,                     \* the file "Export Babel Lyrics" wrote, if any
    tasks,                    \* the spawned loader tasks
    arc_loading_file,         \* loading flag of the player's audio
    arc_loading_lyrics,       \* loading flag of the player's lyrics
    editor_arc_loading_file,  \* loading flag of the editor's lyrics
    audio_details,            \* channel audio_details_tx -> audio_details_rx
    audio_data,               \* channel audio_data_tx -> audio_data_rx
    lyrics_details,           \* the player's lyrics_details channel
    lyrics_data,              \* the player's lyrics_data channel
    editor_lyrics_details,    \* the editor's lyrics_details channel
    editor_lyrics_data,       \* the editor's lyrics_data channel
    audio,                    \* selected_file, file_name, file_size, total_duration, file_data
    arc_rodio_sink,           \* the sources queued in the sink
    lyrics_file,              \* selected_lyrics_file, lyrics_file_name of the player
    editor_file,              \* selected_file, file_name of the editor
    player_state,             \* BabelPlayerApp.player_state
    player_start_instant,     \* BabelPlayerApp.player_start_instant : Option<Instant>
    player_offset,            \* BabelPlayerApp.player_offset
    now,                      \* the reading of the monotonic clock, Instant::now()
    sink_paused,              \* whether the sink is paused, Sink::is_paused()
    sink_seek                 \* the position Sink::try_seek last moved a queued source to

editor_vars == <<lyrics, language_uuids, line_uuids>>
player_vars == <<app_lyrics, player_timestamp, show_main_lyrics_window,
                 show_captions_window, lyrics_window, captions_window>>
loader_vars ==
    <<tasks, arc_loading_file, arc_loading_lyrics, editor_arc_loading_file,
      audio_details, audio_data, lyrics_details, lyrics_data,
      editor_lyrics_details, editor_lyrics_data,
      audio, arc_rodio_sink, lyrics_file, editor_file>>
clock_vars ==
    <<player_state, player_start_instant, player_offset, now, sink_paused, sink_seek>>
vars == <<editor_vars, panicked, last, player_vars, disk, loader_vars, clock_vars>>

(***************************************************************************)
(* Bounds of the model.                                                    *)
(***************************************************************************)
MaxLines == 2
MaxSegments == 3
MaxLanguages == 2
MaxLanguageUuids == 2
MaxLineUuids == 2
MaxWords == 2
WMaxLines == 2
WMaxSegments == 2
WMaxLanguages == 2
MaxAssociations == 2
MaxTime == 4

(***************************************************************************)
(* Option and Vec                                                          *)
(***************************************************************************)
None == <<>>
Some(x) == <<x>>
is_some(o) == o /= <<>>
unwrap(o) == o[1]

Min(a, b) == IF a < b THEN a ELSE b
Max(a, b) == IF a < b THEN b ELSE a

Contains(v, x) == \E k \in 1..Len(v) : v[k] = x
VecRemove(v, index) == SubSeq(v, 1, index) \o SubSeq(v, index + 2, Len(v))
VecInsert(v, index, x) == SubSeq(v, 1, index) \o <<x>> \o SubSeq(v, index + 1, Len(v))
\* the element at a copied over the one at b, the one at b lost
VecOverwrite(v, a, b) == [v EXCEPT ![b + 1] = v[a + 1]]
VecSwap(v, a, b) == [v EXCEPT ![a + 1] = v[b + 1], ![b + 1] = v[a + 1]]
Range(v) == {v[k] : k \in 1..Len(v)}

(***************************************************************************)
(* Markup import: parse_ttml_lyrics.  uuids holds one fresh uuid per line. *)
(***************************************************************************)
\* a segment that takes the word and drops its timing
parse_ttml_segment_untimed(segment) ==
    [begin |-> 0, end |-> 0, text |-> segment.word, translations |-> <<>>]

parse_ttml_segment(segment) ==
    [begin |-> segment.start_time,
     end |-> segment.end_time,
     text |-> segment.word,
     translations |-> <<>>]

parse_ttml_line(line, uuid) ==
    [begin |-> line.start_time,
     end |-> line.end_time,
     agent_id |-> "",
     original |-> [s \in 1..Len(line.words) |-> parse_ttml_segment(line.words[s])],
     translations |-> <<>>,
     uuid |-> uuid]

parse_ttml_lyrics(ttml_lyrics, uuids) ==
    [metadata |-> [agents |-> <<>>, translations |-> <<>>],
     lyrics |-> [lines |-> [l \in 1..Len(ttml_lyrics.lines) |->
                               parse_ttml_line(ttml_lyrics.lines[l], uuids[l])]]]

(***************************************************************************)
(* The parsed markup files the import is tried on: up to MaxLines lines,   *)
(* each with up to two timed words.                                        *)
(***************************************************************************)
TTMLWord(b, e, w) == [start_time |-> b, end_time |-> e, word |-> w]
TTMLLine(b, e, ws) == [start_time |-> b, end_time |-> e, words |-> ws]

TTMLLineA == TTMLLine(0, 2, <<TTMLWord(0, 1, "a"), TTMLWord(1, 2, "b")>>)
TTMLLineB == TTMLLine(2, MaxTime, <<TTMLWord(2, MaxTime, "c")>>)

TTMLInputs ==
    { [lines |-> ls] : ls \in { <<TTMLLineA>>, <<TTMLLineA, TTMLLineB>> } }

(***************************************************************************)
(* show_translation_languages_list                                         *)
(***************************************************************************)
empty_translations(doc) ==
    [e \in 1..Len(doc.metadata.translations) |-> <<doc.metadata.translations[e].id, <<>>>>]

segment_add_language(segment, new_id) ==
    [segment EXCEPT !.translations = Append(@, <<new_id, <<>>>>)]

\* the new entry given to the line but not to its segments
line_add_language_only(line, new_id) ==
    [line EXCEPT !.translations = Append(@, <<new_id, <<>>>>)]

line_add_language(line, new_id) ==
    [line EXCEPT !.translations = Append(@, <<new_id, <<>>>>),
                 !.original = [s \in 1..Len(line.original) |->
                                  segment_add_language(line.original[s], new_id)]]

add_language(doc, new_id) ==
    [metadata |-> [doc.metadata EXCEPT
                      !.translations = Append(@, [language |-> "", id |-> new_id])],
     lyrics |-> [lines |-> [l \in 1..Len(doc.lyrics.lines) |->
                               line_add_language(doc.lyrics.lines[l], new_id)]]]

\* a segment that keeps the entries of a removed language
segment_keep_language(segment, id) == segment

segment_remove_language(segment, id) ==
    [segment EXCEPT !.translations = SelectSeq(@, LAMBDA x : x[1] /= id)]

line_remove_language(line, id) ==
    [line EXCEPT !.translations = SelectSeq(@, LAMBDA x : x[1] /= id),
                 !.original = [s \in 1..Len(line.original) |->
                                  segment_remove_language(line.original[s], id)]]

remove_language(doc, id) ==
    [metadata |-> [doc.metadata EXCEPT
                      !.translations = SelectSeq(@, LAMBDA x : x.id /= id)],
     lyrics |-> [lines |-> [l \in 1..Len(doc.lyrics.lines) |->
                               line_remove_language(doc.lyrics.lines[l], id)]]]

RECURSIVE remove_languages(_, _)
remove_languages(doc, to_remove) ==
    IF to_remove = <<>> THEN doc
    ELSE remove_languages(remove_language(doc, Head(to_remove)), Tail(to_remove))

show_translation_languages_list(doc, add_clicked, new_id, to_remove) ==
    remove_languages(IF add_clicked THEN add_language(doc, new_id) ELSE doc, to_remove)

(***************************************************************************)
(* "+ Add Line"                                                            *)
(***************************************************************************)
empty_translations_string(doc) == empty_translations(doc)

\* a line built without the per-language entries
add_line_without_entries(doc, uuid) ==
    [doc EXCEPT !.lyrics.lines =
        Append(@, [begin |-> 0, end |-> 0, agent_id |-> "", original |-> <<>>,
                   translations |-> <<>>, uuid |-> uuid])]

\* the new line put before the existing ones
add_line_in_front(doc, uuid) ==
    [doc EXCEPT !.lyrics.lines =
        <<[begin |-> 0, end |-> 0, agent_id |-> "", original |-> <<>>,
           translations |-> empty_translations(doc), uuid |-> uuid]>> \o @]

add_line(doc, uuid) ==
    [doc EXCEPT !.lyrics.lines =
        Append(@, [begin |-> 0,
                   end |-> 0,
                   agent_id |-> "",
                   original |-> <<>>,
                   translations |-> empty_translations_string(doc),
                   uuid |-> uuid])]

(***************************************************************************)
(* show_line_translations, for the translation pair at position k (1-based *)
(* position in line.translations) whose grid holds the widgets used.       *)
(* A handler that can panic returns Option: None is the panic.             *)
(***************************************************************************)
\* the removed index dropped, the larger ones left as they are
drop_index_only(segment_translation_index, index) ==
    SelectSeq(segment_translation_index, LAMBDA x : x /= index)

\* the larger indices shifted down, the removed one left in the list
decrement_only(segment_translation_index, index) ==
    [j \in 1..Len(segment_translation_index) |->
        IF segment_translation_index[j] > index
        THEN segment_translation_index[j] - 1 ELSE segment_translation_index[j]]

\* a segment whose association lists ignore the removal
segment_keep_word(segment, lang_id, index) == segment

\* lines 319-324: drop the removed index, shift the larger ones down
shift_indices(segment_translation_index, index) ==
    LET kept == SelectSeq(segment_translation_index, LAMBDA x : x /= index)
    IN [j \in 1..Len(kept) |-> IF kept[j] > index THEN kept[j] - 1 ELSE kept[j]]

segment_remove_word(segment, lang_id, index) ==
    [segment EXCEPT !.translations =
        [e \in 1..Len(segment.translations) |->
            IF segment.translations[e][1] = lang_id
            THEN <<lang_id, shift_indices(segment.translations[e][2], index)>>
            ELSE segment.translations[e]]]

\* lines 313-327, one index of to_delete
remove_translation_word(line, k, index) ==
    LET lang_id == line.translations[k][1]
    IN [line EXCEPT
          !.translations[k] = <<lang_id, VecRemove(line.translations[k][2], index)>>,
          !.original = [s \in 1..Len(line.original) |->
                           segment_remove_word(line.original[s], lang_id, index)]]

\* lines 312-328: to_delete.iter().rev()
RECURSIVE remove_translation_words(_, _, _)
remove_translation_words(line, k, to_delete) ==
    IF to_delete = <<>> THEN line
    ELSE remove_translation_words(
             remove_translation_word(line, k, to_delete[Len(to_delete)]),
             k, SubSeq(to_delete, 1, Len(to_delete) - 1))

\* lines 329-331
add_translation_word(line, k) ==
    [line EXCEPT !.translations[k] = <<line.translations[k][1], Append(line.translations[k][2], "")>>]

\* the index pushed whenever the box is ticked, listed or not
toggle_push_always(segment_translation_index, word_index, change_to) ==
    IF change_to
    THEN Append(segment_translation_index, word_index)
    ELSE SelectSeq(segment_translation_index, LAMBDA x : x /= word_index)

\* lines 347-357: change_to is the checkbox's value after the user's input
toggle_segment_word_association(segment_translation_index, word_index, change_to) ==
    LET is_in_translation == Contains(segment_translation_index, word_index)
    IN IF change_to /= is_in_translation
       THEN IF change_to
            THEN Append(segment_translation_index, word_index)
            ELSE SelectSeq(segment_translation_index, LAMBDA x : x /= word_index)
       ELSE segment_translation_index

\* lines 342-346: .iter_mut().find(|(id, _)| id == lang_id): the first such entry
find_translation(translations, lang_id) ==
    LET hits == {e \in 1..Len(translations) : translations[e][1] = lang_id}
    IN IF hits = {} THEN None
       ELSE Some(CHOOSE e \in hits : \A f \in hits : e <= f)

\* lines 339-358 for one segment: flipped holds the word indices whose checkbox
\* the user changed
RECURSIVE segment_checkboxes(_, _, _, _, _)
segment_checkboxes(segment, lang_id, word_index, word_count, flipped) ==
    IF word_index >= word_count THEN Some(segment)
    ELSE LET found == find_translation(segment.translations, lang_id)
         IN IF found = None THEN None
            ELSE LET e == unwrap(found)
                     list == segment.translations[e][2]
                     is_in_translation == Contains(list, word_index)
                     change_to == IF word_index \in flipped
                                  THEN ~is_in_translation ELSE is_in_translation
                 IN segment_checkboxes(
                        [segment EXCEPT !.translations[e] =
                            <<lang_id, toggle_segment_word_association(list, word_index, change_to)>>],
                        lang_id, word_index + 1, word_count, flipped)

\* inputs: edit = None or Some(<<index, text>>) (typing into a word's field),
\* to_delete (ascending), plus_clicked, checks = the set of <<segment, word_index>>
\* (0-based) whose checkbox was flipped
show_line_translations(line, k, edit, to_delete, plus_clicked, checks) ==
    LET lang_id == line.translations[k][1]
        edited == IF is_some(edit)
                  THEN [line EXCEPT !.translations[k] =
                           <<lang_id, [line.translations[k][2] EXCEPT
                                          ![unwrap(edit)[1] + 1] = unwrap(edit)[2]]>>]
                  ELSE line
        deleted == remove_translation_words(edited, k, to_delete)
        added == IF plus_clicked THEN add_translation_word(deleted, k) ELSE deleted
        word_count == Len(added.translations[k][2])
        boxes == [s \in 1..Len(added.original) |->
                     segment_checkboxes(added.original[s], lang_id, 0, word_count,
                                        {c[2] : c \in {d \in checks : d[1] = s - 1}})]
    IN IF \E s \in 1..Len(boxes) : boxes[s] = None THEN None
       ELSE Some([added EXCEPT !.original = [s \in 1..Len(boxes) |-> unwrap(boxes[s])]])

(***************************************************************************)
(* show_segment_edit_grid                                                  *)
(***************************************************************************)
\* a mutation of DragValue: the field has no range
DragValue_unranged(value, lo, hi, input) == IF is_some(input) THEN unwrap(input) ELSE value

\* egui::DragValue with .range(lo..=hi): the shown value is kept in the range;
\* input is None, or Some(v) when the user drags or types v
DragValue(value, lo, hi, input) ==
    Max(lo, Min(hi, IF is_some(input) THEN unwrap(input) ELSE value))

\* lines 411-434 (and 437-460): the Duration is split into minutes, seconds and
\* milliseconds, each passes a DragValue, and the Duration is put together again
edit_duration(d, input) ==
    LET minutes == DragValue(d \div 60000, 0, 59, None)
        seconds == DragValue((d \div 1000) % 60, 0, 59, None)
        milliseconds == DragValue(d % 1000, 0, 999, input)
    IN minutes * 60 * 1000 + seconds * 1000 + milliseconds

\* edit = None or Some(<<index, field, v>>): the milliseconds field of the
\* begin or end of the segment at index is set to v
grid_rows(original, edit) ==
    [s \in 1..Len(original) |->
        [original[s] EXCEPT
            !.begin = edit_duration(@, IF is_some(edit) /\ unwrap(edit)[1] = s - 1
                                          /\ unwrap(edit)[2] = "begin"
                                       THEN Some(unwrap(edit)[3]) ELSE None),
            !.end = edit_duration(@, IF is_some(edit) /\ unwrap(edit)[1] = s - 1
                                        /\ unwrap(edit)[2] = "end"
                                     THEN Some(unwrap(edit)[3]) ELSE None)]]

\* lines 472-474: to_remove.iter().rev(); Vec::remove panics past the end
RECURSIVE remove_segments(_, _)
remove_segments(original, to_remove) ==
    IF to_remove = <<>> THEN Some(original)
    ELSE LET index == to_remove[Len(to_remove)]
         IN IF index >= Len(original) THEN None
            ELSE remove_segments(VecRemove(original, index),
                                 SubSeq(to_remove, 1, Len(to_remove) - 1))

\* a segment built without the per-language entries
new_segment_without_entries(empty_translations_usize) ==
    [begin |-> 0, end |-> 0, text |-> "", translations |-> <<>>]

new_segment(empty_translations_usize) ==
    [begin |-> 0, end |-> 0, text |-> "", translations |-> empty_translations_usize]

\* lines 475-485; Vec::insert panics when index > len
RECURSIVE insert_segments(_, _, _)
insert_segments(original, to_insert, empty_translations_usize) ==
    IF to_insert = <<>> THEN Some(original)
    ELSE LET index == Head(to_insert)
         IN IF index > Len(original) THEN None
            ELSE insert_segments(
                     VecInsert(original, index, new_segment(empty_translations_usize)),
                     Tail(to_insert), empty_translations_usize)

\* lines 486-488; slice::swap panics on an index past the end
RECURSIVE move_segments(_, _)
move_segments(original, to_move) ==
    IF to_move = <<>> THEN Some(original)
    ELSE LET from == Head(to_move)[1]
             to == Head(to_move)[2]
         IN IF from >= Len(original) \/ to >= Len(original) THEN None
            ELSE move_segments(VecSwap(original, from, to), Tail(to_move))

show_segment_edit_grid(line, empty_translations_usize, edit, to_remove, to_insert, to_move) ==
    LET rows == grid_rows(line.original, edit)
        removed == remove_segments(rows, to_remove)
        inserted == IF removed = None THEN None
                    ELSE insert_segments(unwrap(removed), to_insert, empty_translations_usize)
        moved == IF inserted = None THEN None
                 ELSE move_segments(unwrap(inserted), to_move)
    IN IF moved = None THEN None
       ELSE Some([line EXCEPT !.original = unwrap(moved)])

(***************************************************************************)
(* State machine                                                           *)
(***************************************************************************)
\* the loader tasks that can be spawned
MaxTasks == 2
Tasks == 1..MaxTasks

\* a task that has not been spawned
IdleTask ==
    [pc |-> "idle", loader |-> "none", target |-> "none", file |-> None,
     lyrics |-> None, before |-> None, others |-> FALSE]

Init ==
    /\ lyrics = None
    /\ language_uuids = 0
    /\ line_uuids = 0
    /\ panicked = FALSE
    /\ last = [op |-> "new"]
    /\ app_lyrics = None
    /\ player_timestamp = 0
    /\ show_main_lyrics_window = FALSE
    /\ show_captions_window = FALSE
    /\ lyrics_window = None
    /\ captions_window = None
    /\ disk = None
    /\ player_state = "Stopped"
    /\ player_start_instant = None
    /\ player_offset = 0
    /\ now = 0
    /\ sink_paused = FALSE
    /\ sink_seek = None
    /\ tasks = [t \in Tasks |-> IdleTask]
    /\ arc_loading_file = FALSE
    /\ arc_loading_lyrics = FALSE
    /\ editor_arc_loading_file = FALSE
    /\ audio_details = <<>>
    /\ audio_data = <<>>
    /\ lyrics_details = <<>>
    /\ lyrics_data = <<>>
    /\ editor_lyrics_details = <<>>
    /\ editor_lyrics_data = <<>>
    /\ audio = [selected_file |-> None, file_name |-> None, file_size |-> None,
                total_duration |-> None, file_data |-> None]
    /\ arc_rodio_sink = <<>>
    /\ lyrics_file = [selected_lyrics_file |-> None, lyrics_file_name |-> None]
    /\ editor_file = [selected_file |-> None, file_name |-> None]

\* lyrics_data_rx.try_recv() delivers the Document the TTML loader parsed.
ReceiveLyricsData(lim) ==
    /\ ~panicked
    /\ \E ttml_lyrics \in lim.imports :
         LET n == Len(ttml_lyrics.lines)
             uuids == [l \in 1..n |-> line_uuids + l]
         IN /\ line_uuids + n <= lim.line_uuids
            /\ lyrics' = Some(parse_ttml_lyrics(ttml_lyrics, uuids))
            /\ line_uuids' = line_uuids + n
            /\ last' = [op |-> "import", ttml |-> ttml_lyrics]
    /\ UNCHANGED <<language_uuids, panicked, player_vars, disk, clock_vars, loader_vars>>

\* One widget of the "Translations" list used in the update: a delete button
\* or "Add Language".
LanguagesList(lim) ==
    /\ ~panicked
    /\ is_some(lyrics)
    /\ LET doc == unwrap(lyrics)
           widgets == {<<"remove", doc.metadata.translations[e].id>> :
                           e \in 1..Len(doc.metadata.translations)}
                        \cup {<<"add", language_uuids + 1>> :
                                 i \in 1..(IF /\ language_uuids < lim.language_uuids
                                              /\ Len(doc.metadata.translations) < lim.languages
                                           THEN 1 ELSE 0)}
       IN \E u \in widgets :
            LET add_clicked == u[1] = "add"
                to_remove == IF u[1] = "remove" THEN <<u[2]>> ELSE <<>>
            IN /\ lyrics' = Some(show_translation_languages_list(doc, add_clicked, u[2], to_remove))
               /\ language_uuids' = IF add_clicked THEN u[2] ELSE language_uuids
               /\ last' = [op |-> "languages", widget |-> u]
    /\ UNCHANGED <<line_uuids, panicked, player_vars, disk, clock_vars, loader_vars>>

AddLine(lim) ==
    /\ ~panicked
    /\ is_some(lyrics)
    /\ Len(unwrap(lyrics).lyrics.lines) < lim.lines
    /\ line_uuids < lim.line_uuids
    /\ lyrics' = Some(add_line(unwrap(lyrics), line_uuids + 1))
    /\ line_uuids' = line_uuids + 1
    /\ last' = [op |-> "add_line"]
    /\ UNCHANGED <<language_uuids, panicked, player_vars, disk, clock_vars, loader_vars>>

WordTexts == {"x"}

RECURSIVE Sum(_)
Sum(v) == IF v = <<>> THEN 0 ELSE Head(v) + Sum(Tail(v))

\* the segments, and the translated words, the whole document holds
SegmentCount(doc) ==
    Sum([l \in 1..Len(doc.lyrics.lines) |-> Len(doc.lyrics.lines[l].original)])
\* the word indices recorded in all the association lists of the document
AssociationCount(doc) ==
    Sum([l \in 1..Len(doc.lyrics.lines) |->
            Sum([s \in 1..Len(doc.lyrics.lines[l].original) |->
                    Sum([e \in 1..Len(doc.lyrics.lines[l].original[s].translations) |->
                            Len(doc.lyrics.lines[l].original[s].translations[e][2])])])])
IsAssociated(segment, lang_id, word_index) ==
    \E e \in 1..Len(segment.translations) :
        /\ segment.translations[e][1] = lang_id
        /\ Contains(segment.translations[e][2], word_index)
WordCount(doc) ==
    Sum([l \in 1..Len(doc.lyrics.lines) |->
            Sum([k \in 1..Len(doc.lyrics.lines[l].translations) |->
                    Len(doc.lyrics.lines[l].translations[k][2])])])

replace_line(doc, l, line) == [doc EXCEPT !.lyrics.lines[l] = line]

\* One translation grid of one line, one widget of lines 293-358 used in the
\* update: typing into a word, a delete button, "+", or a checkbox.
LineTranslations(lim) ==
    /\ ~panicked
    /\ is_some(lyrics)
    /\ LET doc == unwrap(lyrics)
       IN \E l \in 1..Len(doc.lyrics.lines) :
          \E k \in 1..Len(doc.lyrics.lines[l].translations) :
            LET line == doc.lyrics.lines[l]
                words == line.translations[k][2]
                association_room == AssociationCount(doc) < lim.associations
                widgets == {<<"edit", i, w>> : i \in 0..Len(words) - 1, w \in lim.texts}
                             \cup {<<"delete", i, 0>> : i \in 0..Len(words) - 1}
                             \cup {<<"plus", 0, 0>> : i \in 1..(IF WordCount(doc) < lim.words THEN 1 ELSE 0)}
                             \cup {<<"check", c[1], c[2]>> : c \in {<<s, i>> \in (0..Len(line.original) - 1) \X (0..Len(words) - 1) :
                                      \/ association_room
                                      \/ IsAssociated(line.original[s + 1], line.translations[k][1], i)}}
            IN \E u \in widgets :
                 LET edit == IF u[1] = "edit" THEN Some(<<u[2], u[3]>>) ELSE None
                     to_delete == IF u[1] = "delete" THEN <<u[2]>> ELSE <<>>
                     plus_clicked == u[1] = "plus"
                     checks == IF u[1] = "check" THEN {<<u[2], u[3]>>} ELSE {}
                     result == show_line_translations(line, k, edit, to_delete, plus_clicked, checks)
                 IN /\ last' = [op |-> "translations", line |-> l, k |-> k, widget |-> u]
                    /\ IF result = None
                       THEN panicked' = TRUE /\ UNCHANGED lyrics
                       ELSE /\ lyrics' = Some(replace_line(doc, l, unwrap(result)))
                            /\ UNCHANGED panicked
    /\ UNCHANGED <<language_uuids, line_uuids, player_vars, disk, clock_vars, loader_vars>>

\* a mutation of segment_buttons: a "+" above the rows inserts at position 0
segment_buttons_with_first(word_count) ==
    {<<"remove", i>> : i \in 0..word_count - 1}
        \cup {<<"insert", i>> : i \in (0 - 1)..word_count - 1}
        \cup {<<"up", i>> : i \in 1..word_count - 1}
        \cup {<<"down", i>> : i \in 0..word_count - 2}

\* lines 384-408: the buttons the rows of a line with word_count segments show
segment_buttons(word_count) ==
    {<<"remove", i>> : i \in 0..word_count - 1}
        \cup {<<"insert", i>> : i \in 0..word_count - 1}
        \cup {<<"up", i>> : i \in 1..word_count - 1}
        \cup {<<"down", i>> : i \in 0..word_count - 2}

\* The segment grid of one line, one widget of lines 384-470 used in the update:
\* a delete, "+" or arrow button, or the milliseconds field of a begin or end.
SegmentGrid(lim) ==
    /\ ~panicked
    /\ is_some(lyrics)
    /\ LET doc == unwrap(lyrics)
       IN \E l \in 1..Len(doc.lyrics.lines) :
            LET line == doc.lyrics.lines[l]
                widgets == {<<b[1], b[2], 0>> :
                               b \in {c \in segment_buttons(Len(line.original)) :
                                         c[1] = "insert" => SegmentCount(doc) < lim.segments}}
            IN \E u \in widgets :
                 LET edit == None
                     to_remove == IF u[1] = "remove" THEN <<u[2]>> ELSE <<>>
                     to_insert == IF u[1] = "insert" THEN <<u[2] + 1>> ELSE <<>>
                     to_move == IF u[1] = "up" THEN <<<<u[2], u[2] - 1>>>>
                                ELSE IF u[1] = "down" THEN <<<<u[2], u[2] + 1>>>> ELSE <<>>
                     result == show_segment_edit_grid(line, empty_translations(doc), edit,
                                                      to_remove, to_insert, to_move)
                 IN /\ last' = [op |-> "segments", line |-> l, widget |-> u]
                    /\ IF result = None
                       THEN panicked' = TRUE /\ UNCHANGED lyrics
                       ELSE /\ lyrics' = Some(replace_line(doc, l, unwrap(result)))
                            /\ UNCHANGED panicked
    /\ UNCHANGED <<language_uuids, line_uuids, player_vars, disk, clock_vars, loader_vars>>

Next(lim) ==
    \/ ReceiveLyricsData(lim)
    \/ LanguagesList(lim)
    \/ LineTranslations(lim)
    \/ SegmentGrid(lim)
    \/ AddLine(lim)

\* The editor explored with room for structure: languages, lines and segments.
StructureBounds ==
    [lines |-> MaxLines, line_uuids |-> MaxLineUuids, segments |-> MaxSegments,
     languages |-> MaxLanguages, language_uuids |-> MaxLanguageUuids,
     words |-> 1, associations |-> 1, texts |-> {}, imports |-> TTMLInputs]

Spec == Init /\ [][Next(StructureBounds)]_vars

\* The editor explored with room for translated words and their associations.
WordBounds ==
    [lines |-> WMaxLines, line_uuids |-> WMaxLines, segments |-> WMaxSegments,
     languages |-> WMaxLanguages, language_uuids |-> WMaxLanguages,
     words |-> MaxWords, associations |-> MaxAssociations, texts |-> WordTexts,
     imports |-> {[lines |-> <<TTMLLineA>>]}]

SpecWords == Init /\ [][Next(WordBounds)]_vars

(***************************************************************************)
(* The markup import alone, over parsed files of zero to two lines, each   *)
(* with zero to two timed words.                                           *)
(***************************************************************************)
IMaxLineUuids == 3

TTMLWords ==
    {<<>>,
     <<TTMLWord(0, 1, "a")>>,
     <<TTMLWord(0, 1, "a"), TTMLWord(1, MaxTime, "b")>>,
     <<TTMLWord(MaxTime, 0, " "), TTMLWord(0, 1, "a")>>}
TTMLLines ==
    {TTMLLine(0, 2, ws) : ws \in TTMLWords} \cup {TTMLLine(MaxTime, MaxTime, ws) : ws \in TTMLWords}
TTMLFiles ==
    {[lines |-> ls] : ls \in {<<>>} \cup {<<a>> : a \in TTMLLines}
                                \cup {<<a, b>> : a \in TTMLLines, b \in TTMLLines}}

ImportBounds ==
    [lines |-> 2, line_uuids |-> IMaxLineUuids, segments |-> 0,
     languages |-> 0, language_uuids |-> 0,
     words |-> 0, associations |-> 0, texts |-> {}, imports |-> TTMLFiles]

SpecImport == Init /\ [][ReceiveLyricsData(ImportBounds)]_vars

(***************************************************************************)
(* The segment grid with several buttons used in one update: a pointer     *)
(* click on one button and a keyboard or accessibility activation of the   *)
(* focused one are both reported by clicked() in the same pass over the    *)
(* rows.  The three Vecs are filled in row order and applied after the     *)
(* loop: removals (last first), insertions, moves.                         *)
(***************************************************************************)
MaxClicks == 2
CMaxSegments == 3

\* the elements of a set of integers in increasing order
RECURSIVE SortedSeq(_)
SortedSeq(S) ==
    IF S = {} THEN <<>>
    ELSE LET m == CHOOSE x \in S : \A y \in S : x <= y
         IN <<m>> \o SortedSeq(S \ {m})

\* lines 386-408: what the loop over the rows pushes for the clicked buttons
collect_to_remove(clicked) == SortedSeq({b[2] : b \in {c \in clicked : c[1] = "remove"}})
collect_to_insert(clicked) == SortedSeq({b[2] + 1 : b \in {c \in clicked : c[1] = "insert"}})
collect_to_move(clicked) ==
    LET keys == SortedSeq({2 * b[2] + (IF b[1] = "up" THEN 0 ELSE 1) :
                              b \in {c \in clicked : c[1] \in {"up", "down"}}})
    IN [n \in 1..Len(keys) |->
           IF keys[n] % 2 = 0 THEN <<keys[n] \div 2, (keys[n] \div 2) - 1>>
           ELSE <<keys[n] \div 2, (keys[n] \div 2) + 1>>]

\* The segment grid of one line with one to MaxClicks buttons used in the update.
SegmentGridClicks(lim) ==
    /\ ~panicked
    /\ is_some(lyrics)
    /\ LET doc == unwrap(lyrics)
       IN \E l \in 1..Len(doc.lyrics.lines) :
            LET line == doc.lyrics.lines[l]
                buttons == segment_buttons(Len(line.original))
            IN \E clicked \in SUBSET buttons :
                 LET to_remove == collect_to_remove(clicked)
                     to_insert == collect_to_insert(clicked)
                     to_move == collect_to_move(clicked)
                     result == show_segment_edit_grid(line, empty_translations(doc), None,
                                                      to_remove, to_insert, to_move)
                 IN /\ Cardinality(clicked) \in 1..MaxClicks
                    /\ SegmentCount(doc) + Len(to_insert) - Len(to_remove) <= lim.segments
                    /\ last' = [op |-> "segment_clicks", line |-> l, to_remove |-> to_remove,
                                to_insert |-> to_insert, to_move |-> to_move]
                    /\ IF result = None
                       THEN panicked' = TRUE /\ UNCHANGED lyrics
                       ELSE /\ lyrics' = Some(replace_line(doc, l, unwrap(result)))
                            /\ UNCHANGED panicked
    /\ UNCHANGED <<language_uuids, line_uuids, player_vars, disk, clock_vars, loader_vars>>

ClickBounds ==
    [lines |-> 1, line_uuids |-> 1, segments |-> CMaxSegments,
     languages |-> 1, language_uuids |-> 1,
     words |-> 0, associations |-> 0, texts |-> {},
     imports |-> {[lines |-> <<TTMLLineA>>]}]

NextClicks ==
    \/ ReceiveLyricsData(ClickBounds)
    \/ LanguagesList(ClickBounds)
    \/ SegmentGridClicks(ClickBounds)

SpecClicks == Init /\ [][NextClicks]_vars

(***************************************************************************)
(* The player's windows (src/src/app.rs).  A painted line is the branch of *)
(* the activity test that drew it, the colour of each segment label and,   *)
(* per translation pair of the line, the colour of each word label.        *)
(***************************************************************************)
RECURSIVE Flatten(_)
Flatten(vs) == IF vs = <<>> THEN <<>> ELSE Head(vs) \o Flatten(Tail(vs))

\* a line taken as active on its closed interval
line_active_closed(line, current_time) ==
    current_time >= line.begin /\ current_time <= line.end

\* a segment taken as active on its closed interval
segment_active_closed(segment, current_time) ==
    current_time >= segment.begin /\ current_time <= segment.end

\* show_lyrics_window, line 477
lyrics_line_active(line, current_time) ==
    current_time > line.begin /\ current_time < line.end

\* show_lyrics_window, line 481
lyrics_segment_active(segment, current_time) ==
    current_time > segment.begin /\ current_time < segment.end

\* show_lyrics_window, lines 478-489: the pairs of the active segments
lyrics_current_translations_index_vec(line, current_time) ==
    Flatten([s \in 1..Len(line.original) |->
                IF lyrics_segment_active(line.original[s], current_time)
                THEN line.original[s].translations ELSE <<>>])

\* show_lyrics_window, lines 491-502
lyrics_language_translations_index_vec(current_translations_index_vec, id) ==
    Flatten([e \in 1..Len(current_translations_index_vec) |->
                IF current_translations_index_vec[e][1] = id
                THEN current_translations_index_vec[e][2] ELSE <<>>])

\* show_lyrics_window, lines 475-522 for one line
lyrics_window_line(line, current_time) ==
    IF lyrics_line_active(line, current_time)
    THEN LET current_translations_index_vec ==
                 lyrics_current_translations_index_vec(line, current_time)
         IN [branch |-> "active",
             original |-> [s \in 1..Len(line.original) |->
                              IF lyrics_segment_active(line.original[s], current_time)
                              THEN "ORANGE_500" ELSE "label"],
             translations |-> [k \in 1..Len(line.translations) |->
                 LET language_translations_index_vec ==
                         lyrics_language_translations_index_vec(
                             current_translations_index_vec, line.translations[k][1])
                 IN [index \in 1..Len(line.translations[k][2]) |->
                        IF Contains(language_translations_index_vec, index - 1)
                        THEN "ORANGE_500" ELSE "GRAY_500"]]]
    ELSE [branch |-> "inactive",
          original |-> [s \in 1..Len(line.original) |-> "GRAY_700"],
          translations |-> <<>>]

show_lyrics_window(doc, current_time) ==
    [l \in 1..Len(doc.lyrics.lines) |-> lyrics_window_line(doc.lyrics.lines[l], current_time)]

\* update, "Captions", line 364
captions_line_active(line, current_time) ==
    current_time > line.begin /\ current_time < line.end

\* update, "Captions", line 368
captions_segment_active(segment, current_time) ==
    current_time > segment.begin /\ current_time < segment.end

\* update, "Captions", lines 365-376
captions_current_translations_index_vec(line, current_time) ==
    Flatten([s \in 1..Len(line.original) |->
                IF captions_segment_active(line.original[s], current_time)
                THEN line.original[s].translations ELSE <<>>])

\* update, "Captions", lines 378-390
captions_language_translations_index_vec(current_translations_index_vec, id) ==
    Flatten([e \in 1..Len(current_translations_index_vec) |->
                IF current_translations_index_vec[e][1] = id
                THEN current_translations_index_vec[e][2] ELSE <<>>])

\* update, "Captions", lines 362-404 for one line: an inactive line draws nothing
captions_window_line(line, current_time) ==
    IF captions_line_active(line, current_time)
    THEN LET current_translations_index_vec ==
                 captions_current_translations_index_vec(line, current_time)
         IN [branch |-> "active",
             original |-> [s \in 1..Len(line.original) |->
                              IF captions_segment_active(line.original[s], current_time)
                              THEN "ORANGE_500" ELSE "label"],
             translations |-> [k \in 1..Len(line.translations) |->
                 LET language_translations_index_vec ==
                         captions_language_translations_index_vec(
                             current_translations_index_vec, line.translations[k][1])
                 IN [index \in 1..Len(line.translations[k][2]) |->
                        IF Contains(language_translations_index_vec, index - 1)
                        THEN "ORANGE_500" ELSE "GRAY_500"]]]
    ELSE [branch |-> "inactive", original |-> <<>>, translations |-> <<>>]

show_captions(doc, current_time) ==
    [l \in 1..Len(doc.lyrics.lines) |-> captions_window_line(doc.lyrics.lines[l], current_time)]

\* update, lines 351-353 and 357-406: the windows whose flag is set are painted
paint_lyrics_window(show, doc, current_time) ==
    IF show THEN Some(show_lyrics_window(unwrap(doc), current_time)) ELSE None
paint_captions_window(show, doc, current_time) ==
    IF show THEN Some(show_captions(unwrap(doc), current_time)) ELSE None

(***************************************************************************)
(* The documents the player is given: two languages, a first line with two *)
(* segments whose intervals and association lists vary (a zero-duration    *)
(* segment, overlapping segments, a segment reaching past its line, a      *)
(* segment without an entry for a language), and a fixed second line that  *)
(* overlaps the first.                                                     *)
(***************************************************************************)
PlayerLanguages ==
    <<[language |-> "p", id |-> 1], [language |-> "q", id |-> 2]>>

PlayerSegment(interval, text, translations) ==
    [begin |-> interval[1], end |-> interval[2], text |-> text, translations |-> translations]

PlayerLine(interval, original, uuid) ==
    [begin |-> interval[1], end |-> interval[2], agent_id |-> "", original |-> original,
     translations |-> << <<1, <<"x", "y">>>>, <<2, <<"z">>>> >>, uuid |-> uuid]

PlayerLineIntervals == { <<1, 3>>, <<2, 2>>, <<0, MaxTime>> }
PlayerFirstSegments ==
    { PlayerSegment(i, "a", tr) :
        i \in { <<0, 2>>, <<2, 2>>, <<1, MaxTime>> },
        tr \in { << <<1, <<0>>>>, <<2, <<>>>> >>,
                 << <<1, <<1, 0>>>>, <<2, <<0>>>> >>,
                 << <<2, <<0>>>> >> } }
PlayerSecondSegments ==
    { PlayerSegment(i, "b", tr) :
        i \in { <<2, 3>>, <<0, MaxTime>> },
        tr \in { << <<1, <<1>>>>, <<2, <<>>>> >>,
                 << <<1, <<>>>>, <<2, <<0>>>> >> } }
PlayerLastLine ==
    PlayerLine(<<2, MaxTime>>, <<PlayerSegment(<<2, MaxTime>>, "c", << <<1, <<0>>>>, <<2, <<>>>> >>)>>, 2)

PlayerDocuments ==
    { [metadata |-> [agents |-> <<>>, translations |-> PlayerLanguages],
       lyrics |-> [lines |-> <<PlayerLine(i, <<a, b>>, 1), PlayerLastLine>>]] :
        i \in PlayerLineIntervals, a \in PlayerFirstSegments, b \in PlayerSecondSegments }

\* update, lines 210-214: lyrics_data_rx.try_recv() delivers a Document; both
\* windows are shown from this update on
PlayerReceiveLyricsData ==
    /\ ~panicked
    /\ \E doc \in PlayerDocuments :
         /\ app_lyrics' = Some(doc)
         /\ show_main_lyrics_window' = TRUE
         /\ show_captions_window' = TRUE
         /\ lyrics_window' = paint_lyrics_window(TRUE, Some(doc), player_timestamp)
         /\ captions_window' = paint_captions_window(TRUE, Some(doc), player_timestamp)
    /\ last' = [op |-> "player_import"]
    /\ UNCHANGED <<editor_vars, panicked, player_timestamp, disk, clock_vars, loader_vars>>

\* a mutation of checkboxes_shown: the checkboxes are shown without a Document
checkboxes_always_shown(doc) == TRUE

\* update, line 220: the two window checkboxes are part of the panel only
\* while the player holds a Document
checkboxes_shown(doc) == is_some(doc)

\* update, lines 220-223: one of the two window checkboxes is flipped; a
\* window shown without a Document panics on unwrap (lines 351-353, 357-362)
PlayerWindowCheckbox ==
    /\ ~panicked
    /\ checkboxes_shown(app_lyrics)
    /\ \E main \in BOOLEAN :
         /\ show_main_lyrics_window' = (IF main THEN ~show_main_lyrics_window
                                        ELSE show_main_lyrics_window)
         /\ show_captions_window' = (IF main THEN show_captions_window
                                     ELSE ~show_captions_window)
    /\ panicked' = (app_lyrics = None /\ (show_main_lyrics_window' \/ show_captions_window'))
    /\ lyrics_window' = (IF panicked' THEN lyrics_window
                         ELSE paint_lyrics_window(show_main_lyrics_window', app_lyrics,
                                                  player_timestamp))
    /\ captions_window' = (IF panicked' THEN captions_window
                           ELSE paint_captions_window(show_captions_window', app_lyrics,
                                                      player_timestamp))
    /\ last' = [op |-> "player_checkbox"]
    /\ UNCHANGED <<editor_vars, app_lyrics, player_timestamp, disk, clock_vars, loader_vars>>

\* update, lines 228-258: the timestamp field is dragged to timestamp_ms; the
\* player is stopped, so the offset follows the timestamp
PlayerScrub ==
    /\ ~panicked
    /\ \E timestamp_ms \in 0..MaxTime :
         /\ player_timestamp' = timestamp_ms
         /\ player_offset' = timestamp_ms
         /\ lyrics_window' = paint_lyrics_window(show_main_lyrics_window, app_lyrics, timestamp_ms)
         /\ captions_window' = paint_captions_window(show_captions_window, app_lyrics, timestamp_ms)
    /\ last' = [op |-> "player_scrub"]
    /\ UNCHANGED <<editor_vars, panicked, app_lyrics, show_main_lyrics_window, show_captions_window, disk, player_state, player_start_instant, now, sink_paused, sink_seek, loader_vars>>

NextPlayer ==
    \/ PlayerReceiveLyricsData
    \/ PlayerWindowCheckbox
    \/ PlayerScrub

SpecPlayer == Init /\ [][NextPlayer]_vars

(***************************************************************************)
(* Babel Lyrics files: the serde derives of lyrics.rs over serde_json.     *)
(* A JSON value is a pair of a tag and a value; an object keeps its        *)
(* members, pairs of a name and a JSON value, in file order.  A Uuid is    *)
(* written as a JSON string in hyphenated form, kept apart from other      *)
(* strings by the tag "uuid"; a Duration is written as a whole number of   *)
(* milliseconds.                                                           *)
(***************************************************************************)
json(tag, value) == <<tag, value>>

\* (Uuid, Vec<usize>) and (Uuid, Vec<String>), lines 40 and 56: a two-element
\* array of the id and the array of numbers or of strings
serialize_entry(entry, tag) ==
    json("array", <<json("uuid", entry[1]),
                    json("array", [n \in 1..Len(entry[2]) |-> json(tag, entry[2][n])])>>)

\* #[derive(Serialize)] LyricsMetadata, Agent and TranslationEntry, lines 5-20
serialize_metadata(metadata) ==
    json("object", <<
        <<"agents", json("array", [a \in 1..Len(metadata.agents) |->
            json("object", << <<"id", json("string", metadata.agents[a].id)>> >>)])>>,
        <<"translations", json("array", [m \in 1..Len(metadata.translations) |->
            json("object", << <<"language", json("string", metadata.translations[m].language)>>,
                              <<"id", json("uuid", metadata.translations[m].id)>> >>)])>> >>)

\* a mutation of serialize_segment: the segment's end is written for its begin
serialize_segment_end_twice(segment) ==
    json("object", <<
        <<"begin", json("number", segment.end)>>,
        <<"end", json("number", segment.end)>>,
        <<"text", json("string", segment.text)>>,
        <<"translations", json("array", [e \in 1..Len(segment.translations) |->
                                   serialize_entry(segment.translations[e], "number")])>> >>)

\* #[derive(Serialize)] LyricsSegment, lines 27-41: DurationMilliSeconds<i64>
\* writes begin and end as numbers of milliseconds
serialize_segment(segment) ==
    json("object", <<
        <<"begin", json("number", segment.begin)>>,
        <<"end", json("number", segment.end)>>,
        <<"text", json("string", segment.text)>>,
        <<"translations", json("array", [e \in 1..Len(segment.translations) |->
                                   serialize_entry(segment.translations[e], "number")])>> >>)

\* #[derive(Serialize)] LyricsLine, lines 43-57
serialize_line(line) ==
    json("object", <<
        <<"begin", json("number", line.begin)>>,
        <<"end", json("number", line.end)>>,
        <<"agent_id", json("string", line.agent_id)>>,
        <<"original", json("array", [s \in 1..Len(line.original) |->
                                   serialize_segment(line.original[s])])>>,
        <<"uuid", json("uuid", line.uuid)>>,
        <<"translations", json("array", [e \in 1..Len(line.translations) |->
                                   serialize_entry(line.translations[e], "string")])>> >>)

\* #[derive(Serialize)] BabelLyrics and Lyrics, lines 22-25 and 59-63, as
\* serde_json::to_writer writes them (lyrics_editor.rs line 104)
to_json(doc) ==
    json("object", <<
        <<"metadata", serialize_metadata(doc.metadata)>>,
        <<"lyrics", json("object", <<
            <<"lines", json("array", [l \in 1..Len(doc.lyrics.lines) |->
                                   serialize_line(doc.lyrics.lines[l])])>> >>)>> >>)

\* the derived Deserialize of a struct: members are found by name in any
\* order, unknown members are skipped, a missing or repeated member is an error
has_member(value, name) ==
    Cardinality({i \in 1..Len(value[2]) : value[2][i][1] = name}) = 1
member(value, name) == value[2][CHOOSE i \in 1..Len(value[2]) : value[2][i][1] = name][2]
is_struct(value, names) ==
    /\ value[1] = "object"
    /\ \A name \in names : has_member(value, name)

\* a JSON value of the kind a field's type reads: "string" for String, "uuid"
\* for Uuid, "number" for DurationMilliSeconds<i64>, "array" for Vec and tuples
is_json(value, tag) == value[1] = tag

\* (Uuid, Vec<usize>) and (Uuid, Vec<String>): usize reads no negative number
is_entry(value, tag) ==
    /\ is_json(value, "array")
    /\ Len(value[2]) = 2
    /\ is_json(value[2][1], "uuid")
    /\ is_json(value[2][2], "array")
    /\ \A n \in 1..Len(value[2][2][2]) :
         /\ is_json(value[2][2][2][n], tag)
         /\ tag = "number" => value[2][2][2][n][2] >= 0
deserialize_entry(value) ==
    <<value[2][1][2], [n \in 1..Len(value[2][2][2]) |-> value[2][2][2][n][2]]>>

\* #[derive(Deserialize)] LyricsMetadata, Agent and TranslationEntry
is_metadata(value) ==
    /\ is_struct(value, {"agents", "translations"})
    /\ is_json(member(value, "agents"), "array")
    /\ \A a \in 1..Len(member(value, "agents")[2]) :
         /\ is_struct(member(value, "agents")[2][a], {"id"})
         /\ is_json(member(member(value, "agents")[2][a], "id"), "string")
    /\ is_json(member(value, "translations"), "array")
    /\ \A m \in 1..Len(member(value, "translations")[2]) :
         /\ is_struct(member(value, "translations")[2][m], {"language", "id"})
         /\ is_json(member(member(value, "translations")[2][m], "language"), "string")
         /\ is_json(member(member(value, "translations")[2][m], "id"), "uuid")
deserialize_metadata(value) ==
    [agents |-> [a \in 1..Len(member(value, "agents")[2]) |->
                    [id |-> member(member(value, "agents")[2][a], "id")[2]]],
     translations |-> [m \in 1..Len(member(value, "translations")[2]) |->
                    [language |-> member(member(value, "translations")[2][m], "language")[2],
                     id |-> member(member(value, "translations")[2][m], "id")[2]]]]

\* #[derive(Deserialize)] LyricsSegment: DurationMilliSeconds<i64> reads begin
\* and end as numbers of milliseconds
is_segment(value) ==
    /\ is_struct(value, {"begin", "end", "text", "translations"})
    /\ is_json(member(value, "begin"), "number")
    /\ is_json(member(value, "end"), "number")
    /\ is_json(member(value, "text"), "string")
    /\ is_json(member(value, "translations"), "array")
    /\ \A e \in 1..Len(member(value, "translations")[2]) :
         is_entry(member(value, "translations")[2][e], "number")
deserialize_segment(value) ==
    [begin |-> member(value, "begin")[2],
     end |-> member(value, "end")[2],
     text |-> member(value, "text")[2],
     translations |-> [e \in 1..Len(member(value, "translations")[2]) |->
                          deserialize_entry(member(value, "translations")[2][e])]]

\* #[derive(Deserialize)] LyricsLine
is_line(value) ==
    /\ is_struct(value, {"begin", "end", "agent_id", "original", "uuid", "translations"})
    /\ is_json(member(value, "begin"), "number")
    /\ is_json(member(value, "end"), "number")
    /\ is_json(member(value, "agent_id"), "string")
    /\ is_json(member(value, "original"), "array")
    /\ \A s \in 1..Len(member(value, "original")[2]) :
         is_segment(member(value, "original")[2][s])
    /\ is_json(member(value, "uuid"), "uuid")
    /\ is_json(member(value, "translations"), "array")
    /\ \A e \in 1..Len(member(value, "translations")[2]) :
         is_entry(member(value, "translations")[2][e], "string")
deserialize_line(value) ==
    [begin |-> member(value, "begin")[2],
     end |-> member(value, "end")[2],
     agent_id |-> member(value, "agent_id")[2],
     original |-> [s \in 1..Len(member(value, "original")[2]) |->
                      deserialize_segment(member(value, "original")[2][s])],
     uuid |-> member(value, "uuid")[2],
     translations |-> [e \in 1..Len(member(value, "translations")[2]) |->
                          deserialize_entry(member(value, "translations")[2][e])]]

\* #[derive(Deserialize)] BabelLyrics and Lyrics
is_babel_lyrics(value) ==
    /\ is_struct(value, {"metadata", "lyrics"})
    /\ is_metadata(member(value, "metadata"))
    /\ is_struct(member(value, "lyrics"), {"lines"})
    /\ is_json(member(member(value, "lyrics"), "lines"), "array")
    /\ \A l \in 1..Len(member(member(value, "lyrics"), "lines")[2]) :
         is_line(member(member(value, "lyrics"), "lines")[2][l])

\* serde_json::from_reader::<BabelLyrics> (lyrics_editor.rs line 542): Some
\* of the Document, or None where it returns Err
from_json(value) ==
    IF is_babel_lyrics(value)
    THEN Some([metadata |-> deserialize_metadata(member(value, "metadata")),
               lyrics |-> [lines |->
                   [l \in 1..Len(member(member(value, "lyrics"), "lines")[2]) |->
                       deserialize_line(member(member(value, "lyrics"), "lines")[2][l])]]])
    ELSE None

(***************************************************************************)
(* Export and JSON import in the editor, over a set of Babel Lyrics files: *)
(* files written by the export, a hand-written file whose members come in  *)
(* another order with one unknown member, and files that do not parse.     *)
(***************************************************************************)
JsonDocuments ==
    LET languages == {<<>>, PlayerLanguages,
                      <<[language |-> "q", id |-> 2], [language |-> "p", id |-> 1]>>}
        segments ==
            {<<>>,
             <<PlayerSegment(<<0, 2>>, "a", << <<1, <<1, 0>>>>, <<2, <<0>>>> >>),
               PlayerSegment(<<MaxTime, 1>>, " ", << <<2, <<>>>>, <<1, <<1>>>> >>)>>}
        lines == {[PlayerLine(<<1, 3>>, original, 1) EXCEPT !.agent_id = agent] :
                     original \in segments, agent \in {"", "v1"}}
    IN {[metadata |-> [agents |-> a, translations |-> t], lyrics |-> [lines |-> ls]] :
           a \in {<<>>, <<[id |-> "v1"], [id |-> "v2"]>>},
           t \in languages,
           ls \in {<<>>} \cup {<<line, PlayerLastLine>> : line \in lines}}

\* {"lyrics":{"lines":[],"note":0},"metadata":{"translations":[],"agents":[]}}
JsonReordered ==
    json("object", <<
        <<"lyrics", json("object", << <<"lines", json("array", <<>>)>>,
                                      <<"note", json("number", 0)>> >>)>>,
        <<"metadata", json("object", << <<"translations", json("array", <<>>)>>,
                                        <<"agents", json("array", <<>>)>> >>)>> >>)
\* files serde_json rejects: no object, a member missing, a negative index
JsonRejected ==
    {json("number", 0),
     json("object", << <<"metadata", serialize_metadata([agents |-> <<>>, translations |-> <<>>])>> >>),
     to_json([metadata |-> [agents |-> <<>>, translations |-> PlayerLanguages],
              lyrics |-> [lines |-> <<PlayerLine(<<1, 3>>,
                  <<PlayerSegment(<<0, 2>>, "a", << <<1, <<0 - 1>>>>, <<2, <<>>>> >>)>>, 1)>>]])}
JsonFiles == {to_json(doc) : doc \in JsonDocuments} \cup {JsonReordered} \cup JsonRejected

\* lines 94-107: "Export Babel Lyrics" clones the Document and the spawned
\* task writes it to the file chosen in the save dialog: a file that can be
\* created and written, a path at which no file can be created, or a file
\* that is created (and so emptied) and cannot be written in full.
\* File::create(..).unwrap() panics inside the task; the result of
\* serde_json::to_writer is dropped by `let _ =`.
ExportBabelLyrics(targets) ==
    /\ ~panicked
    /\ is_some(lyrics)
    /\ \E target \in targets :
         /\ disk' = (CASE target = "writable" -> Some(to_json(unwrap(lyrics)))
                       [] target = "no_create" -> disk
                       [] target = "no_write" -> Some(json("truncated", <<>>)))
         /\ last' = [op |-> "export", target |-> target,
                     outcome |-> CASE target = "writable" -> "written"
                                   [] target = "no_create" -> "aborted"
                                   [] target = "no_write" -> "unreported"]
    /\ UNCHANGED <<editor_vars, panicked, player_vars, loader_vars, clock_vars>>

\* json_lyrics_file_loader, lines 525-556, and the receive of lines 115-117:
\* the chosen file is parsed and the Document it holds replaces the editor's;
\* a file that does not parse delivers nothing and the task prints the error
\* (lines 546-548).  "Select lyrics file" picks the file on the disk or one of
\* the files offered.
ReadLyricsFile(file, exported) ==
    LET parsed == from_json(file)
    IN /\ lyrics' = (IF is_some(parsed) THEN parsed ELSE lyrics)
       /\ last' = [op |-> "select_lyrics_file", exported |-> exported,
                   parsed |-> is_some(parsed),
                   outcome |-> IF is_some(parsed) THEN "delivered" ELSE "reported"]

SelectLyricsFile(files) ==
    /\ ~panicked
    /\ \/ is_some(disk) /\ ReadLyricsFile(unwrap(disk), TRUE)
       \/ \E other \in files : ReadLyricsFile(other, FALSE)
    /\ UNCHANGED <<language_uuids, line_uuids, panicked, player_vars, disk, clock_vars, loader_vars>>

JsonBounds ==
    [lines |-> 1, line_uuids |-> 1, segments |-> 0,
     languages |-> 0, language_uuids |-> 0,
     words |-> 0, associations |-> 0, texts |-> {}, imports |-> {[lines |-> <<TTMLLineA>>]}]

NextJson ==
    \/ ReceiveLyricsData(JsonBounds)
    \/ SelectLyricsFile(JsonFiles)
    \/ ExportBabelLyrics({"writable"})

SpecJson == Init /\ [][NextJson]_vars

\* a well-formed Babel Lyrics file whose line lists words of language 1 and
\* whose segment has an association entry for language 2 only
JsonUnassociated ==
    to_json([metadata |-> [agents |-> <<>>, translations |-> PlayerLanguages],
             lyrics |-> [lines |-> <<PlayerLine(<<1, 3>>,
                 <<PlayerSegment(<<0, 2>>, "a", << <<2, <<0>>>> >>)>>, 1)>>]])

\* the editor over Documents of both imports
NextEditImported ==
    \/ Next(ClickBounds)
    \/ SelectLyricsFile({JsonUnassociated, JsonReordered})

SpecEditImported == Init /\ [][NextEditImported]_vars

\* exports to every kind of target, of Documents imported and added to, with
\* loads of the file on the disk, of a hand-written file and of files that
\* do not parse
NextExport ==
    \/ ReceiveLyricsData(WordBounds)
    \/ AddLine(WordBounds)
    \/ SelectLyricsFile(JsonRejected \cup {JsonReordered})
    \/ ExportBabelLyrics({"writable", "no_create", "no_write"})

SpecExport == Init /\ [][NextExport]_vars

(***************************************************************************)
(* File loads.  Every click on a load button spawns a task (tokio::spawn); *)
(* a task runs beside the updates of the window and talks to them through  *)
(* its target's loading flag and pair of channels.  The editor window is   *)
(* open.  A task record keeps, beside the task's position, the state of    *)
(* its target when it was spawned (before) and whether something another   *)
(* sender delivered has changed that state since (others).                 *)
(***************************************************************************)
\* the files a dialog can return: one that cannot be opened, one that opens
\* and does not parse, a TTML file and a Babel Lyrics file
LyricsFiles ==
    {[path |-> "/gone", name |-> "gone", opens |-> FALSE, ttml |-> None, json |-> json("number", 0)],
     [path |-> "/noise", name |-> "noise", opens |-> TRUE, ttml |-> None, json |-> json("number", 0)],
     [path |-> "/a.ttml", name |-> "a.ttml", opens |-> TRUE,
      ttml |-> Some([lines |-> <<TTMLLineA>>]), json |-> json("number", 0)],
     [path |-> "/b.json", name |-> "b.json", opens |-> TRUE,
      ttml |-> None,
      json |-> to_json([metadata |-> [agents |-> <<>>, translations |-> PlayerLanguages],
                        lyrics |-> [lines |-> <<PlayerLastLine>>]])]}

\* audio files: one that cannot be read, one whose bytes rodio cannot decode,
\* two that decode, with and without a known total duration
AudioFiles ==
    {[path |-> "/gone.mp3", name |-> "gone.mp3", reads |-> FALSE, data |-> <<>>,
      decodes |-> FALSE, total_duration |-> None],
     [path |-> "/noise.mp3", name |-> "noise.mp3", reads |-> TRUE, data |-> <<0>>,
      decodes |-> FALSE, total_duration |-> None],
     [path |-> "/song.mp3", name |-> "song.mp3", reads |-> TRUE, data |-> <<1, 2>>,
      decodes |-> TRUE, total_duration |-> Some(MaxTime)],
     [path |-> "/tune.mp3", name |-> "tune.mp3", reads |-> TRUE, data |-> <<3>>,
      decodes |-> TRUE, total_duration |-> None]}

\* the player's audio state: the fields update sets at lines 141-153 and the
\* sources queued in the sink
AudioState ==
    [selected_file |-> audio.selected_file, file_name |-> audio.file_name,
     file_size |-> audio.file_size, total_duration |-> audio.total_duration,
     file_data |-> audio.file_data, sink |-> arc_rodio_sink]

\* the Document of a lyrics target
TargetDocument(target) == IF target = "editor" THEN lyrics ELSE app_lyrics

\* tokio::spawn of a loader: the dialog is the first thing the task does
NewLoader(loader, target, before) ==
    [pc |-> "dialog", loader |-> loader, target |-> target, file |-> None,
     lyrics |-> None, before |-> before, others |-> FALSE]

\* app.rs lines 163-178: the task spawned by "Load from editor" owns a clone
\* of the editor's Document
NewFromEditor(doc, before) ==
    [pc |-> "send_data", loader |-> "from_editor", target |-> "player", file |-> None,
     lyrics |-> Some(doc), before |-> before, others |-> FALSE]

\* the next task to spawn, 0 when MaxTasks tasks were spawned
FreeSlot ==
    LET idle == {t \in Tasks : tasks[t].pc = "idle"}
    IN IF idle = {} THEN 0 ELSE CHOOSE t \in idle : \A u \in idle : t <= u

\* whether the button of a click is enabled in this update (add_enabled_ui)
ButtonEnabled(click) ==
    CASE click = "none" -> TRUE
      [] click = "audio" -> ~arc_loading_file
      [] click = "from_editor" -> is_some(lyrics)
      [] click = "player_json" -> ~arc_loading_lyrics
      [] click \in {"editor_ttml", "editor_json"} -> ~editor_arc_loading_file

\* the task a click spawns
Spawned(click) ==
    CASE click = "audio" -> NewLoader("audio", "audio", Some(AudioState))
      [] click = "from_editor" -> NewFromEditor(unwrap(lyrics), Some(app_lyrics))
      [] click = "player_json" -> NewLoader("json", "player", Some(app_lyrics))
      [] click = "editor_ttml" -> NewLoader("ttml", "editor", Some(lyrics))
      [] click = "editor_json" -> NewLoader("json", "editor", Some(lyrics))

\* try_recv: the first message of a channel, if any
try_recv(channel) == IF channel = <<>> THEN None ELSE Some(Head(channel))

\* a mutation of rest: the poll empties the channel
rest_drained(channel) == <<>>

\* what a channel holds after one try_recv
rest(channel) == IF channel = <<>> THEN <<>> ELSE Tail(channel)

\* the senders whose messages an update takes from the channels of a target
Received(target) ==
    CASE target = "audio" ->
            {m.from : m \in Range(try_recv(audio_details))}
                \cup {m.from : m \in Range(try_recv(audio_data))}
      [] target = "player" -> {m.from : m \in Range(try_recv(lyrics_data))}
      [] target = "editor" -> {m.from : m \in Range(try_recv(editor_lyrics_data))}
      [] OTHER -> {}

\* One update of the application (app.rs lines 131-405 with the editor
\* window of lyrics_editor.rs lines 52-117) in which at most one of the load
\* buttons is clicked: the click spawns its task, then each pair of channels
\* is polled once.
Update(buttons) ==
    /\ ~panicked
    /\ \E click \in buttons :
         LET slot == FreeSlot
             a_details == try_recv(audio_details)
             a_data == try_recv(audio_data)
             l_details == try_recv(lyrics_details)
             l_data == try_recv(lyrics_data)
             e_details == try_recv(editor_lyrics_details)
             e_data == try_recv(editor_lyrics_data)
             with_spawn == [t \in Tasks |-> IF click # "none" /\ t = slot
                                            THEN Spawned(click) ELSE tasks[t]]
         IN /\ ButtonEnabled(click)
            /\ click # "none" => slot # 0
            \* app.rs lines 140-153
            /\ arc_loading_file' = (IF is_some(a_details) THEN FALSE ELSE arc_loading_file)
            /\ audio' = [selected_file |-> IF is_some(a_details) THEN unwrap(a_details).selected_file
                                           ELSE audio.selected_file,
                         file_name |-> IF is_some(a_details) THEN unwrap(a_details).file_name
                                       ELSE audio.file_name,
                         file_size |-> IF is_some(a_details) THEN unwrap(a_details).file_size
                                       ELSE audio.file_size,
                         total_duration |-> IF is_some(a_details)
                                            THEN unwrap(a_details).total_duration
                                            ELSE audio.total_duration,
                         file_data |-> IF is_some(a_data) THEN Some(unwrap(a_data).data)
                                       ELSE audio.file_data]
            /\ audio_details' = rest(audio_details)
            /\ audio_data' = rest(audio_data)
            \* app.rs lines 202-214
            /\ arc_loading_lyrics' = (IF is_some(l_details) THEN FALSE ELSE arc_loading_lyrics)
            /\ lyrics_file' = (IF is_some(l_details)
                               THEN [selected_lyrics_file |-> unwrap(l_details).selected_file,
                                     lyrics_file_name |-> unwrap(l_details).file_name]
                               ELSE lyrics_file)
            /\ app_lyrics' = (IF is_some(l_data) THEN Some(unwrap(l_data).data) ELSE app_lyrics)
            /\ show_main_lyrics_window' = (is_some(l_data) \/ show_main_lyrics_window)
            /\ show_captions_window' = (is_some(l_data) \/ show_captions_window)
            /\ lyrics_details' = rest(lyrics_details)
            /\ lyrics_data' = rest(lyrics_data)
            \* app.rs lines 351-353 and 357-404
            /\ lyrics_window' = paint_lyrics_window(show_main_lyrics_window', app_lyrics',
                                                    player_timestamp)
            /\ captions_window' = paint_captions_window(show_captions_window', app_lyrics',
                                                        player_timestamp)
            \* lyrics_editor.rs lines 109-117
            /\ editor_arc_loading_file' = (IF is_some(e_details) THEN FALSE
                                           ELSE editor_arc_loading_file)
            /\ editor_file' = (IF is_some(e_details)
                               THEN [selected_file |-> unwrap(e_details).selected_file,
                                     file_name |-> unwrap(e_details).file_name]
                               ELSE editor_file)
            /\ lyrics' = (IF is_some(e_data) THEN Some(unwrap(e_data).data) ELSE lyrics)
            /\ editor_lyrics_details' = rest(editor_lyrics_details)
            /\ editor_lyrics_data' = rest(editor_lyrics_data)
            /\ tasks' = [t \in Tasks |->
                  [with_spawn[t] EXCEPT !.others =
                      @ \/ (Received(with_spawn[t].target) \ {t}) # {}]]
            /\ last' = [op |-> "update", click |-> click]
    /\ UNCHANGED <<language_uuids, line_uuids, panicked, player_timestamp, disk, clock_vars, arc_rodio_sink>>

\* the file dialog of a loader returns (pick_file, lyrics_editor.rs lines
\* 496-501 and 530-535, app.rs lines 534-539): with no file the task ends,
\* with a file the task sets the loading flag of its target
PickFile(t) ==
    /\ tasks[t].pc = "dialog"
    /\ \E file \in {None} \cup {Some(f) : f \in IF tasks[t].loader = "audio"
                                                THEN AudioFiles ELSE LyricsFiles} :
         /\ tasks' = [tasks EXCEPT ![t].pc = IF is_some(file) THEN "picked" ELSE "cancelled",
                                   ![t].file = file]
         /\ arc_loading_file' = ((is_some(file) /\ tasks[t].target = "audio")
                                    \/ arc_loading_file)
         /\ arc_loading_lyrics' = ((is_some(file) /\ tasks[t].target = "player")
                                    \/ arc_loading_lyrics)
         /\ editor_arc_loading_file' = ((is_some(file) /\ tasks[t].target = "editor")
                                    \/ editor_arc_loading_file)
    /\ last' = [op |-> "pick_file", task |-> t]
    /\ UNCHANGED <<editor_vars, panicked, player_vars, disk, clock_vars, audio_details, audio_data,
                   lyrics_details, lyrics_data, editor_lyrics_details, editor_lyrics_data,
                   audio, arc_rodio_sink, lyrics_file, editor_file>>

\* lyrics_editor.rs lines 504-506 and 538-540: File::open; the details are
\* sent when the file opens, and only an error line is printed when not
OpenLyricsFile(t) ==
    /\ tasks[t].pc = "picked"
    /\ tasks[t].loader \in {"ttml", "json"}
    /\ LET details == [from |-> t, selected_file |-> Some(unwrap(tasks[t].file).path),
                       file_name |-> Some(unwrap(tasks[t].file).name)]
       IN IF unwrap(tasks[t].file).opens
          THEN /\ tasks' = [tasks EXCEPT ![t].pc = "opened"]
               /\ IF tasks[t].target = "editor"
                  THEN /\ editor_lyrics_details' = Append(editor_lyrics_details, details)
                       /\ UNCHANGED lyrics_details
                  ELSE /\ lyrics_details' = Append(lyrics_details, details)
                       /\ UNCHANGED editor_lyrics_details
          ELSE /\ tasks' = [tasks EXCEPT ![t].pc = "failed"]
               /\ UNCHANGED <<lyrics_details, editor_lyrics_details>>
    /\ last' = [op |-> "open", task |-> t]
    /\ UNCHANGED <<editor_vars, panicked, player_vars, disk, clock_vars, arc_loading_file,
                   arc_loading_lyrics, editor_arc_loading_file, audio_details, audio_data,
                   lyrics_data, editor_lyrics_data, audio, arc_rodio_sink, lyrics_file,
                   editor_file>>

\* lyrics_editor.rs lines 508-511 and 542-544: the Document a loader makes of
\* an opened file, None where the parser returns Err
parse_lyrics_file(loader, file, uuids) ==
    IF loader = "ttml"
    THEN IF is_some(file.ttml) THEN Some(parse_ttml_lyrics(unwrap(file.ttml), uuids)) ELSE None
    ELSE from_json(file.json)

\* the ids Uuid::new_v4 gives the lines of a parsed TTML file
FreshLineUuids(file) ==
    IF is_some(file.ttml)
    THEN [l \in 1..Len(unwrap(file.ttml).lines) |-> line_uuids + l]
    ELSE <<>>

\* a mutation of sent_lyrics: a file that does not parse sends an empty
\* Document
sent_lyrics_or_empty(t, parsed) ==
    <<[from |-> t,
       data |-> IF is_some(parsed) THEN unwrap(parsed)
                ELSE [metadata |-> [agents |-> <<>>, translations |-> <<>>],
                      lyrics |-> [lines |-> <<>>]]]>>

\* lyrics_editor.rs lines 509-516 and 543-550: what a loader sends on the
\* data channel: the Document on Ok, nothing on Err (an error line is printed)
sent_lyrics(t, parsed) ==
    IF is_some(parsed) THEN <<[from |-> t, data |-> unwrap(parsed)]>> ELSE <<>>

\* lyrics_editor.rs lines 507-517 and 541-551: the opened file is parsed and
\* the outcome is sent on the data channel of the target
ParseLyricsFile(t) ==
    /\ tasks[t].pc = "opened"
    /\ LET file == unwrap(tasks[t].file)
           uuids == IF tasks[t].loader = "ttml" THEN FreshLineUuids(file) ELSE <<>>
           parsed == parse_lyrics_file(tasks[t].loader, file, uuids)
       IN /\ line_uuids' = line_uuids + Len(uuids)
          /\ tasks' = [tasks EXCEPT ![t].pc = IF is_some(parsed) THEN "done" ELSE "failed"]
          /\ editor_lyrics_data' = (IF tasks[t].target = "editor"
                                    THEN editor_lyrics_data \o sent_lyrics(t, parsed)
                                    ELSE editor_lyrics_data)
          /\ lyrics_data' = (IF tasks[t].target = "player"
                             THEN lyrics_data \o sent_lyrics(t, parsed)
                             ELSE lyrics_data)
    /\ last' = [op |-> "parse", task |-> t]
    /\ UNCHANGED <<lyrics, language_uuids, panicked, player_vars, disk, clock_vars, arc_loading_file,
                   arc_loading_lyrics, editor_arc_loading_file, audio_details, audio_data,
                   lyrics_details, editor_lyrics_details, audio, arc_rodio_sink, lyrics_file,
                   editor_file>>

\* a mutation of handed_lyrics: the task sends the Document the editor holds
\* when the task runs
handed_lyrics_shared(t) == unwrap(lyrics)

\* app.rs lines 165 and 169: the Document moved into the task, the clone
\* taken at the click
handed_lyrics(t) == unwrap(tasks[t].lyrics)

\* app.rs lines 167-175: the task of "Load from editor" sends the Document,
\* then the details
SendFromEditor(t) ==
    /\ tasks[t].pc \in {"send_data", "send_details"}
    /\ IF tasks[t].pc = "send_data"
       THEN /\ lyrics_data' = Append(lyrics_data, [from |-> t, data |-> handed_lyrics(t)])
            /\ tasks' = [tasks EXCEPT ![t].pc = "send_details"]
            /\ UNCHANGED lyrics_details
       ELSE /\ lyrics_details' = Append(lyrics_details,
                   [from |-> t, selected_file |-> Some("From editor"),
                    file_name |-> Some("From editor")])
            /\ tasks' = [tasks EXCEPT ![t].pc = "done"]
            /\ UNCHANGED lyrics_data
    /\ last' = [op |-> "from_editor", task |-> t]
    /\ UNCHANGED <<editor_vars, panicked, player_vars, disk, clock_vars, arc_loading_file,
                   arc_loading_lyrics, editor_arc_loading_file, audio_details, audio_data,
                   editor_lyrics_details, editor_lyrics_data, audio, arc_rodio_sink,
                   lyrics_file, editor_file>>

\* app.rs lines 542-544 and 562-564: tokio::fs::read; the bytes are sent on
\* the data channel when the file is read, and only an error line is printed
\* when not
ReadAudioFile(t) ==
    /\ tasks[t].pc = "picked"
    /\ tasks[t].loader = "audio"
    /\ IF unwrap(tasks[t].file).reads
       THEN /\ audio_data' = Append(audio_data, [from |-> t, data |-> unwrap(tasks[t].file).data])
            /\ tasks' = [tasks EXCEPT ![t].pc = "read"]
       ELSE /\ tasks' = [tasks EXCEPT ![t].pc = "failed"]
            /\ UNCHANGED audio_data
    /\ last' = [op |-> "read", task |-> t]
    /\ UNCHANGED <<editor_vars, panicked, player_vars, disk, clock_vars, arc_loading_file,
                   arc_loading_lyrics, editor_arc_loading_file, audio_details,
                   lyrics_details, lyrics_data, editor_lyrics_details, editor_lyrics_data,
                   audio, arc_rodio_sink, lyrics_file, editor_file>>

\* app.rs lines 547-560: Decoder::new(..).unwrap() panics inside the task on
\* bytes it cannot decode; otherwise the details are sent and the source is
\* appended to the sink.  Nothing of the model reads the sink between the
\* send and the append.
DecodeAudioFile(t) ==
    /\ tasks[t].pc = "read"
    /\ LET file == unwrap(tasks[t].file)
       IN IF file.decodes
          THEN /\ audio_details' = Append(audio_details,
                      [from |-> t, selected_file |-> Some(file.path),
                       file_name |-> Some(file.name), file_size |-> Some(Len(file.data)),
                       total_duration |-> file.total_duration])
               /\ arc_rodio_sink' = Append(arc_rodio_sink, file.data)
               /\ sink_paused' = TRUE
               /\ tasks' = [u \in Tasks |->
                     [tasks[u] EXCEPT !.pc = IF u = t THEN "done" ELSE @,
                                      !.others = @ \/ (u # t /\ tasks[u].target = "audio")]]
          ELSE /\ tasks' = [tasks EXCEPT ![t].pc = "failed"]
               /\ UNCHANGED <<audio_details, arc_rodio_sink, sink_paused>>
    /\ last' = [op |-> "decode", task |-> t]
    /\ UNCHANGED <<editor_vars, panicked, player_vars, disk, player_state,
                   player_start_instant, player_offset, now, sink_seek, arc_loading_file,
                   arc_loading_lyrics, editor_arc_loading_file, audio_data,
                   lyrics_details, lyrics_data, editor_lyrics_details, editor_lyrics_data,
                   audio, lyrics_file, editor_file>>

\* the lyrics loads of the editor and of the player
LyricsButtons == {"none", "editor_ttml", "editor_json", "player_json", "from_editor"}

NextLoadLyrics ==
    \/ Update(LyricsButtons)
    \/ \E t \in Tasks : PickFile(t)
    \/ \E t \in Tasks : OpenLyricsFile(t)
    \/ \E t \in Tasks : ParseLyricsFile(t)
    \/ \E t \in Tasks : SendFromEditor(t)

SpecLoadLyrics == Init /\ [][NextLoadLyrics]_vars

\* the editor is used while "Load from editor" hands its Document to the player
NextHandOff ==
    \/ ReceiveLyricsData(WordBounds)
    \/ AddLine(WordBounds)
    \/ Update({"none", "from_editor"})
    \/ \E t \in Tasks : SendFromEditor(t)

SpecHandOff == Init /\ [][NextHandOff]_vars

\* updates keep coming (the spinner of a set loading flag requests repaints)
\* and the runtime runs every spawned task; a dialog may stay open
SpecLoadLyricsFair ==
    /\ SpecLoadLyrics
    /\ WF_vars(Update({"none"}))
    /\ \A t \in Tasks : WF_vars(OpenLyricsFile(t) \/ ParseLyricsFile(t) \/ SendFromEditor(t))

\* the audio loads of the player
AudioButtons == {"none", "audio"}

NextLoadAudio ==
    \/ Update(AudioButtons)
    \/ \E t \in Tasks : PickFile(t)
    \/ \E t \in Tasks : ReadAudioFile(t)
    \/ \E t \in Tasks : DecodeAudioFile(t)

SpecLoadAudio == Init /\ [][NextLoadAudio]_vars

(***************************************************************************)
(* Playback: the timestamp field and the Play / Pause / Resume / Reset     *)
(* buttons of update (app.rs lines 227-348) under a monotonic clock.       *)
(* Durations and clock readings are whole milliseconds.                    *)
(***************************************************************************)
MaxClock == 4

\* lines 234-239: the upper end of the timestamp field's range, the total
\* duration or i64::MAX; every millisecond count of the model lies below
\* i64::MAX, which therefore never clamps
range_end(total_duration, value, input) ==
    IF is_some(total_duration) THEN unwrap(total_duration)
    ELSE Max(Max(value, 0), IF is_some(input) THEN unwrap(input) ELSE 0)

\* a mutation of rebase_offset: the offset moves only while playing
rebase_offset_playing_only(state, offset, timestamp_ms, original_timestamp) ==
    IF state = "Playing" THEN offset + (timestamp_ms - original_timestamp) ELSE offset

\* lines 251-258: while playing the offset moves by what the field changed,
\* otherwise it follows the timestamp
rebase_offset(state, offset, timestamp_ms, original_timestamp) ==
    IF state = "Playing" THEN offset + (timestamp_ms - original_timestamp) ELSE timestamp_ms

\* lines 276-285 and 290-298: Play and Resume; to_std().unwrap() panics on a
\* negative timestamp, before the sink is seeked and set playing; try_seek
\* on a sink without a source seeks nothing
play(p, instant) ==
    [p EXCEPT !.player_state = "Playing",
              !.player_start_instant = Some(instant),
              !.panicked = @ \/ p.player_timestamp < 0,
              !.sink_seek = IF p.player_timestamp < 0 \/ p.sources = <<>> THEN @
                            ELSE Some(p.player_timestamp),
              !.sink_paused = IF p.player_timestamp < 0 THEN @ ELSE FALSE]

\* a mutation of reset: the start instant is kept
reset_keeps_instant(p) ==
    [p EXCEPT !.player_state = "Stopped", !.player_timestamp = 0, !.player_offset = 0,
              !.sink_paused = TRUE,
              !.sink_seek = IF p.sources = <<>> THEN @ ELSE Some(0)]

\* lines 301-311 and 332-342: Reset, which pauses the sink and seeks it to 0
reset(p) ==
    [p EXCEPT !.player_state = "Stopped", !.player_timestamp = 0, !.player_offset = 0,
              !.player_start_instant = None,
              !.sink_paused = TRUE,
              !.sink_seek = IF p.sources = <<>> THEN @ ELSE Some(0)]

\* the buttons update shows in a state
player_buttons(state) ==
    CASE state = "Stopped" -> {"Play"}
      [] state = "Paused" -> {"Resume", "Reset"}
      [] state = "Playing" -> {"Pause", "Reset"}

\* lines 274-348: the match on player_state, with the buttons clicked in this
\* update applied in the order of the code
player_controls(p, clicked, instant) ==
    CASE p.player_state = "Stopped" ->
            IF "Play" \in clicked THEN play(p, instant) ELSE p
      [] p.player_state = "Paused" ->
            LET resumed == IF "Resume" \in clicked THEN play(p, instant) ELSE p
            IN IF "Reset" \in clicked THEN reset(resumed) ELSE resumed
      [] p.player_state = "Playing" ->
            LET read == [p EXCEPT !.player_timestamp =
                            p.player_offset + (IF is_some(p.player_start_instant)
                                               THEN instant - unwrap(p.player_start_instant)
                                               ELSE 0)]
                paused == IF "Pause" \in clicked
                          THEN [read EXCEPT !.player_state = "Paused",
                                            !.player_offset = read.player_timestamp,
                                            !.sink_paused = TRUE]
                          ELSE read
            IN IF "Reset" \in clicked THEN reset(paused) ELSE paused

\* what the user drags or types into the timestamp field
ScrubInputs == {None, Some(0 - 1), Some(1), Some(MaxTime + 1)}

\* One update of the player at clock reading now: the details of a decoded
\* audio file may arrive (lines 140-149), the timestamp field is shown and
\* possibly edited (lines 227-258), the buttons of the state are shown and
\* possibly clicked (lines 274-348), and the windows are painted (351-404).
\* files are the audio files a load may have decoded, inputs what the user
\* may enter into the field.
PlaybackUpdate(files, inputs) ==
    /\ ~panicked
    /\ \E details \in {None} \cup {Some(f) : f \in {g \in files : g.decodes}},
          input \in inputs,
          clicked \in SUBSET player_buttons(player_state) :
         LET total_duration == IF is_some(details) THEN unwrap(details).total_duration
                               ELSE audio.total_duration
             original_timestamp == player_timestamp
             timestamp_ms == DragValue(original_timestamp, 0,
                                       range_end(total_duration, original_timestamp, input),
                                       input)
             scrubbed == [player_state |-> player_state,
                          player_timestamp |-> timestamp_ms,
                          player_offset |-> rebase_offset(player_state, player_offset,
                                                          timestamp_ms, original_timestamp),
                          player_start_instant |-> player_start_instant,
                          panicked |-> FALSE,
                          sources |-> arc_rodio_sink,
                          sink_paused |-> sink_paused,
                          sink_seek |-> sink_seek]
             p == player_controls(scrubbed, clicked, now)
         IN /\ audio' = (IF is_some(details)
                         THEN [selected_file |-> Some(unwrap(details).path),
                               file_name |-> Some(unwrap(details).name),
                               file_size |-> Some(Len(unwrap(details).data)),
                               total_duration |-> total_duration,
                               file_data |-> Some(unwrap(details).data)]
                         ELSE audio)
            /\ player_state' = p.player_state
            /\ player_timestamp' = p.player_timestamp
            /\ player_offset' = p.player_offset
            /\ player_start_instant' = p.player_start_instant
            /\ panicked' = p.panicked
            /\ sink_paused' = p.sink_paused
            /\ sink_seek' = p.sink_seek
            /\ lyrics_window' = paint_lyrics_window(show_main_lyrics_window, app_lyrics,
                                                    p.player_timestamp)
            /\ captions_window' = paint_captions_window(show_captions_window, app_lyrics,
                                                        p.player_timestamp)
            /\ last' = [op |-> "playback", input |-> input, clicked |-> clicked,
                        timestamp_ms |-> timestamp_ms, at |-> now]
    /\ UNCHANGED <<editor_vars, app_lyrics, show_main_lyrics_window, show_captions_window,
                   disk, now, tasks, arc_loading_file, arc_loading_lyrics,
                   editor_arc_loading_file, audio_details, audio_data, lyrics_details,
                   lyrics_data, editor_lyrics_details, editor_lyrics_data, arc_rodio_sink,
                   lyrics_file, editor_file>>

\* the monotonic clock advances between two updates
Tick ==
    /\ ~panicked
    /\ \E later \in (now + 1)..MaxClock : now' = later
    /\ UNCHANGED <<editor_vars, panicked, last, player_vars, disk, loader_vars,
                   player_state, player_start_instant, player_offset,
                   sink_paused, sink_seek>>

NextPlayback ==
    \/ PlaybackUpdate(AudioFiles, ScrubInputs)
    \/ Tick

SpecPlayback == Init /\ [][NextPlayback]_vars

\* audio_file_loader, lines 559-560: a load that decoded its file appends the
\* source to the sink and pauses the sink, at any moment between two updates.
\* The two calls are one step: update never reads the queue, and append
\* leaves the pause flag and the position alone, so a call of update that
\* falls between the two ends in the state it ends in when it runs before both.
AppendToSink(files) ==
    /\ ~panicked
    /\ Len(arc_rodio_sink) < MaxTasks
    /\ \E file \in {g \in files : g.decodes} :
         arc_rodio_sink' = Append(arc_rodio_sink, file.data)
    /\ sink_paused' = TRUE
    /\ last' = [op |-> "append"]
    /\ UNCHANGED <<editor_vars, panicked, player_vars, disk, tasks, arc_loading_file,
                   arc_loading_lyrics, editor_arc_loading_file, audio_details, audio_data,
                   lyrics_details, lyrics_data, editor_lyrics_details, editor_lyrics_data,
                   audio, lyrics_file, editor_file, player_state, player_start_instant,
                   player_offset, now, sink_seek>>

\* playback while the file of known duration is loaded, once or again
NextSink ==
    LET files == {g \in AudioFiles : is_some(g.total_duration)}
    IN \/ PlaybackUpdate(files, {None, Some(1)})
       \/ Tick
       \/ AppendToSink(files)

SpecSink == Init /\ [][NextSink]_vars

(***************************************************************************)
(* Properties                                                              *)
(***************************************************************************)
\* the ids registered in the metadata of a document
RegisteredIds(doc) ==
    {doc.metadata.translations[m].id : m \in 1..Len(doc.metadata.translations)}

\* the positions of the entries keyed by id in a translations Vec
EntriesOf(translations, id) ==
    {e \in 1..Len(translations) : translations[e][1] = id}

\* a translations Vec holds exactly one entry per registered id and no other
OneEntryPerLanguage(translations, doc) ==
    /\ \A id \in RegisteredIds(doc) : Cardinality(EntriesOf(translations, id)) = 1
    /\ \A e \in 1..Len(translations) : translations[e][1] \in RegisteredIds(doc)

\* C1: from an imported document, whatever the editor does, every line and
\* every segment holds exactly one translations entry per registered language
\* and no entry for an unregistered id.
TranslationsMatchLanguages ==
    is_some(lyrics) =>
        LET doc == unwrap(lyrics)
        IN \A l \in 1..Len(doc.lyrics.lines) :
             /\ OneEntryPerLanguage(doc.lyrics.lines[l].translations, doc)
             /\ \A s \in 1..Len(doc.lyrics.lines[l].original) :
                  OneEntryPerLanguage(doc.lyrics.lines[l].original[s].translations, doc)

\* a language was added and another removed, a line was added with "+ Add Line"
\* and a segment was inserted while a language was registered
TranslationsMatchLanguagesWitness ==
    /\ is_some(lyrics)
    /\ LET doc == unwrap(lyrics)
       IN /\ Len(doc.metadata.translations) >= 1
          /\ Len(doc.metadata.translations) < language_uuids
          /\ \E l \in 1..Len(doc.lyrics.lines) :
               /\ doc.lyrics.lines[l].end = 0
               /\ Len(doc.lyrics.lines[l].translations) >= 1
          /\ \E l \in 1..Len(doc.lyrics.lines) :
             \E s \in 1..Len(doc.lyrics.lines[l].original) :
               /\ doc.lyrics.lines[l].original[s].text = ""
               /\ Len(doc.lyrics.lines[l].original[s].translations) >= 1

\* the association (or word) list of the entry keyed by id
EntryList(translations, id) ==
    translations[CHOOSE e \in EntriesOf(translations, id) : TRUE][2]

\* the step just taken removed a translated word with a delete button
IsRemoveWordStep ==
    /\ last'.op = "translations"
    /\ last'.widget[1] = "delete"
    /\ is_some(lyrics')

\* list with every occurrence of index dropped and every larger index one less
Renumbered(list, index) ==
    LET kept == SelectSeq(list, LAMBDA x : x /= index)
    IN [n \in 1..Len(kept) |-> IF kept[n] > index THEN kept[n] - 1 ELSE kept[n]]

\* the line of the removal before and after it, the language and the position
RemovedFrom == unwrap(lyrics).lyrics.lines[last'.line]
RemovedTo == unwrap(lyrics').lyrics.lines[last'.line]
RemovedLanguage == RemovedFrom.translations[last'.k][1]
RemovedIndex == last'.widget[2]

\* a removal takes the word at the position out of the line's word list of the
\* language and leaves the metadata, the other lines, the other word lists of
\* the line and the association lists of the other languages as they were
RemoveWordFrame ==
    LET pre == unwrap(lyrics)
        post == unwrap(lyrics')
        l == last'.line
        k == last'.k
        i == RemovedIndex
        words == RemovedFrom.translations[k][2]
    IN /\ post.metadata = pre.metadata
       /\ Len(post.lyrics.lines) = Len(pre.lyrics.lines)
       /\ \A m \in 1..Len(pre.lyrics.lines) : m /= l => post.lyrics.lines[m] = pre.lyrics.lines[m]
       /\ Len(RemovedTo.translations) = Len(RemovedFrom.translations)
       /\ \A e \in 1..Len(RemovedFrom.translations) :
            e /= k => RemovedTo.translations[e] = RemovedFrom.translations[e]
       /\ RemovedTo.translations[k][1] = RemovedLanguage
       /\ Len(RemovedTo.translations[k][2]) = Len(words) - 1
       /\ \A n \in 1..Len(words) - 1 :
            RemovedTo.translations[k][2][n] = IF n <= i THEN words[n] ELSE words[n + 1]
       /\ Len(RemovedTo.original) = Len(RemovedFrom.original)
       /\ \A s \in 1..Len(RemovedFrom.original) :
            /\ Len(RemovedTo.original[s].translations) = Len(RemovedFrom.original[s].translations)
            /\ \A e \in 1..Len(RemovedFrom.original[s].translations) :
                 LET old == RemovedFrom.original[s].translations[e]
                     new == RemovedTo.original[s].translations[e]
                 IN /\ new[1] = old[1]
                    /\ old[1] /= RemovedLanguage => new[2] = old[2]

\* C2 as stated: removing word i of language L of a line removes the word at
\* position i, and in every segment of the line the list for L no longer holds
\* i, holds j - 1 for every recorded j > i and still holds every recorded j < i;
\* the lists of other languages and of other lines are unchanged.
RemoveWordLeavesIndexAbsent ==
    [][IsRemoveWordStep =>
         /\ RemoveWordFrame
         /\ \A s \in 1..Len(RemovedFrom.original) :
              LET old == EntryList(RemovedFrom.original[s].translations, RemovedLanguage)
                  new == EntryList(RemovedTo.original[s].translations, RemovedLanguage)
              IN /\ ~Contains(new, RemovedIndex)
                 /\ \A j \in Range(old) : j > RemovedIndex => Contains(new, j - 1)
                 /\ \A j \in Range(old) : j < RemovedIndex => Contains(new, j)]_vars

\* C2, amended: removing word i of language L of a line removes the word at
\* position i, and in every segment of the line the list for L is the former
\* list with the recorded i dropped, every recorded j > i replaced by j - 1 and
\* every recorded j < i kept (so i is listed afterwards exactly when i + 1 was);
\* the lists of other languages and of other lines are unchanged.
RemoveWordRenumbersIndices ==
    [][IsRemoveWordStep =>
         /\ RemoveWordFrame
         /\ \A s \in 1..Len(RemovedFrom.original) :
              LET old == EntryList(RemovedFrom.original[s].translations, RemovedLanguage)
                  new == EntryList(RemovedTo.original[s].translations, RemovedLanguage)
              IN new = Renumbered(old, RemovedIndex)]_vars

\* a word was removed and a segment of the line now lists the removed position:
\* the index of the word that followed it moved down
RemoveWordRenumbersIndicesWitness ==
    /\ last.op = "translations"
    /\ last.widget[1] = "delete"
    /\ is_some(lyrics)
    /\ LET line == unwrap(lyrics).lyrics.lines[last.line]
           L == line.translations[last.k][1]
       IN /\ Len(line.translations[last.k][2]) >= 1
          /\ \E s \in 1..Len(line.original) :
               Contains(EntryList(line.original[s].translations, L), last.widget[2])

\* C3: from an imported document, whatever the editor does, every word index a
\* segment records for a language is a position of the owning line's word list
\* for that language.
RecordedIndicesAreValid ==
    is_some(lyrics) =>
        LET doc == unwrap(lyrics)
        IN \A l \in 1..Len(doc.lyrics.lines) :
           \A s \in 1..Len(doc.lyrics.lines[l].original) :
           \A e \in 1..Len(doc.lyrics.lines[l].original[s].translations) :
             LET line == doc.lyrics.lines[l]
                 entry == line.original[s].translations[e]
             IN \A n \in 1..Len(entry[2]) :
                  \E k \in 1..Len(line.translations) :
                    /\ line.translations[k][1] = entry[1]
                    /\ entry[2][n] < Len(line.translations[k][2])

\* a word was removed, one word is left and a segment records position 0, the
\* last valid one
RecordedIndicesAreValidWitness ==
    /\ last.op = "translations"
    /\ last.widget[1] = "delete"
    /\ is_some(lyrics)
    /\ LET line == unwrap(lyrics).lyrics.lines[last.line]
       IN /\ Len(line.translations[last.k][2]) = 1
          /\ \E s \in 1..Len(line.original) :
               EntryList(line.original[s].translations, line.translations[last.k][1]) = <<0>>

\* the step just taken flipped the checkbox of a word in a segment's row
IsToggleStep ==
    /\ last'.op = "translations"
    /\ last'.widget[1] = "check"
    /\ is_some(lyrics')

\* the line of the toggle before and after it, the language, segment and word
ToggledFrom == unwrap(lyrics).lyrics.lines[last'.line]
ToggledTo == unwrap(lyrics').lyrics.lines[last'.line]
ToggledLanguage == ToggledFrom.translations[last'.k][1]
ToggledSegment == last'.widget[2] + 1
ToggledIndex == last'.widget[3]

\* every association list the document holds
AssociationLists(doc) ==
    UNION {UNION {{doc.lyrics.lines[l].original[s].translations[e][2] :
                      e \in 1..Len(doc.lyrics.lines[l].original[s].translations)} :
                  s \in 1..Len(doc.lyrics.lines[l].original)} :
           l \in 1..Len(doc.lyrics.lines)}

\* C8: setting the association of word i with a segment for language L to
\* included twice gives the list that setting it once gives; a toggle that
\* excludes i removes i from the list and leaves the other indices of the list,
\* the lists of the other languages and the other segments unchanged.
ToggleIsIdempotentAndLocal ==
    [][/\ is_some(lyrics) =>
            \A list \in AssociationLists(unwrap(lyrics)) : \A i \in 0..MaxWords - 1 :
                LET once == toggle_segment_word_association(list, i, TRUE)
                IN /\ toggle_segment_word_association(once, i, TRUE) = once
                   /\ Contains(once, i)
       /\ IsToggleStep =>
            LET pre == unwrap(lyrics)
                post == unwrap(lyrics')
                old == EntryList(ToggledFrom.original[ToggledSegment].translations, ToggledLanguage)
                new == EntryList(ToggledTo.original[ToggledSegment].translations, ToggledLanguage)
            IN /\ IF Contains(old, ToggledIndex)
                  THEN /\ ~Contains(new, ToggledIndex)
                       /\ new = SelectSeq(old, LAMBDA x : x /= ToggledIndex)
                  ELSE new = Append(old, ToggledIndex)
               /\ post.metadata = pre.metadata
               /\ Len(post.lyrics.lines) = Len(pre.lyrics.lines)
               /\ \A m \in 1..Len(pre.lyrics.lines) :
                    m /= last'.line => post.lyrics.lines[m] = pre.lyrics.lines[m]
               /\ ToggledTo.translations = ToggledFrom.translations
               /\ Len(ToggledTo.original) = Len(ToggledFrom.original)
               /\ \A s \in 1..Len(ToggledFrom.original) :
                    s /= ToggledSegment => ToggledTo.original[s] = ToggledFrom.original[s]
               /\ [ToggledTo.original[ToggledSegment] EXCEPT !.translations = <<>>]
                    = [ToggledFrom.original[ToggledSegment] EXCEPT !.translations = <<>>]
               /\ Len(ToggledTo.original[ToggledSegment].translations)
                    = Len(ToggledFrom.original[ToggledSegment].translations)
               /\ \A e \in 1..Len(ToggledFrom.original[ToggledSegment].translations) :
                    LET was == ToggledFrom.original[ToggledSegment].translations[e]
                        is == ToggledTo.original[ToggledSegment].translations[e]
                    IN /\ is[1] = was[1]
                       /\ was[1] /= ToggledLanguage => is = was]_vars

\* a checkbox was cleared: the word is no longer in the segment's list, which
\* still holds another index
ToggleIsIdempotentAndLocalWitness ==
    /\ last.op = "translations"
    /\ last.widget[1] = "check"
    /\ is_some(lyrics)
    /\ LET line == unwrap(lyrics).lyrics.lines[last.line]
           list == EntryList(line.original[last.widget[2] + 1].translations,
                             line.translations[last.k][1])
       IN /\ ~Contains(list, last.widget[3])
          /\ Len(list) >= 1
          /\ Len(line.translations) >= 2

\* C9: from an imported document, whatever the editor does (toggles between
\* removals of translated words and their renumbering included), no association
\* list holds the same word index twice.
NoDuplicateIndices ==
    is_some(lyrics) =>
        \A list \in AssociationLists(unwrap(lyrics)) :
            \A a, b \in 1..Len(list) : a /= b => list[a] /= list[b]

\* a word was removed and two segments of the line now list its position: both
\* lists were renumbered
NoDuplicateIndicesWitness ==
    /\ last.op = "translations"
    /\ last.widget[1] = "delete"
    /\ is_some(lyrics)
    /\ LET line == unwrap(lyrics).lyrics.lines[last.line]
           L == line.translations[last.k][1]
       IN \E s, t \in 1..Len(line.original) :
            /\ s /= t
            /\ EntryList(line.original[s].translations, L) = <<last.widget[2]>>
            /\ EntryList(line.original[t].translations, L) = <<last.widget[2]>>

\* the step just taken used "Add Language" / a language's delete button
IsAddLanguageStep ==
    /\ last'.op = "languages"
    /\ last'.widget[1] = "add"
IsRemoveLanguageStep ==
    /\ last'.op = "languages"
    /\ last'.widget[1] = "remove"

\* the entries of a translations Vec that are not keyed by id, in their order
EntriesBut(translations, id) == SelectSeq(translations, LAMBDA x : x[1] /= id)

\* C6: "Add Language" registers an id that differs from every id registered
\* before, and right after it every line and every segment of the document has
\* exactly one entry keyed by the new id, that entry is empty, and the entries of
\* the languages registered before are unchanged.
AddLanguageAddsOneEmptyEntry ==
    [][IsAddLanguageStep =>
         LET pre == unwrap(lyrics)
             post == unwrap(lyrics')
             id == last'.widget[2]
         IN /\ id \notin RegisteredIds(pre)
            /\ RegisteredIds(post) = RegisteredIds(pre) \cup {id}
            /\ Len(post.metadata.translations) = Len(pre.metadata.translations) + 1
            /\ SelectSeq(post.metadata.translations, LAMBDA x : x.id /= id) = pre.metadata.translations
            /\ Len(post.lyrics.lines) = Len(pre.lyrics.lines)
            /\ \A l \in 1..Len(pre.lyrics.lines) :
                 LET before == pre.lyrics.lines[l]
                     after == post.lyrics.lines[l]
                 IN /\ Cardinality(EntriesOf(after.translations, id)) = 1
                    /\ EntryList(after.translations, id) = <<>>
                    /\ EntriesBut(after.translations, id) = before.translations
                    /\ Len(after.original) = Len(before.original)
                    /\ \A s \in 1..Len(before.original) :
                         /\ Cardinality(EntriesOf(after.original[s].translations, id)) = 1
                         /\ EntryList(after.original[s].translations, id) = <<>>
                         /\ EntriesBut(after.original[s].translations, id)
                              = before.original[s].translations]_vars

\* a second language was just added to a document that holds a translated word
\* and an association of the first
AddLanguageAddsOneEmptyEntryWitness ==
    /\ last.op = "languages"
    /\ last.widget[1] = "add"
    /\ is_some(lyrics)
    /\ Len(unwrap(lyrics).metadata.translations) = 2
    /\ AssociationCount(unwrap(lyrics)) = 1

\* C7: after a language's delete button, the metadata holds no language with
\* that id and no line or segment holds an entry keyed by it; the entries of the
\* other languages are unchanged, contents and order; removing an id that is not
\* registered leaves the whole document as it is.
RemoveLanguageRemovesItsEntries ==
    [][/\ IsRemoveLanguageStep =>
            LET pre == unwrap(lyrics)
                post == unwrap(lyrics')
                id == last'.widget[2]
            IN /\ id \in RegisteredIds(pre)
               /\ id \notin RegisteredIds(post)
               /\ post.metadata.translations
                    = SelectSeq(pre.metadata.translations, LAMBDA x : x.id /= id)
               /\ post.metadata.agents = pre.metadata.agents
               /\ Len(post.lyrics.lines) = Len(pre.lyrics.lines)
               /\ \A l \in 1..Len(pre.lyrics.lines) :
                    LET before == pre.lyrics.lines[l]
                        after == post.lyrics.lines[l]
                    IN /\ EntriesOf(after.translations, id) = {}
                       /\ after.translations = EntriesBut(before.translations, id)
                       /\ Len(after.original) = Len(before.original)
                       /\ \A s \in 1..Len(before.original) :
                            /\ EntriesOf(after.original[s].translations, id) = {}
                            /\ after.original[s].translations
                                 = EntriesBut(before.original[s].translations, id)
                            /\ [after.original[s] EXCEPT !.translations = <<>>]
                                 = [before.original[s] EXCEPT !.translations = <<>>]
                       /\ [after EXCEPT !.translations = <<>>, !.original = <<>>]
                            = [before EXCEPT !.translations = <<>>, !.original = <<>>]
       /\ is_some(lyrics) =>
            \A id \in (0..MaxLanguageUuids + 1) \ RegisteredIds(unwrap(lyrics)) :
                remove_language(unwrap(lyrics), id) = unwrap(lyrics)]_vars

\* one of two languages was just removed; the other keeps a translated word
RemoveLanguageRemovesItsEntriesWitness ==
    /\ last.op = "languages"
    /\ last.widget[1] = "remove"
    /\ is_some(lyrics)
    /\ Len(unwrap(lyrics).metadata.translations) = 1
    /\ WordCount(unwrap(lyrics)) = 1

\* the step just taken used the "+" button of a segment's row
IsInsertSegmentStep ==
    /\ last'.op = "segments"
    /\ last'.widget[1] = "insert"
    /\ is_some(lyrics')

\* C10: inserting a segment at position k of a line, k within the line, gives a
\* line one segment longer whose segment at k has begin = end = 0, an empty text
\* and exactly one empty entry per language registered then; the segments that
\* were at k and after are one position further, and every segment that was
\* there keeps its timing, text and association lists.
InsertSegmentAddsBlankSegment ==
    [][IsInsertSegmentStep =>
         LET pre == unwrap(lyrics)
             post == unwrap(lyrics')
             before == pre.lyrics.lines[last'.line].original
             after == post.lyrics.lines[last'.line].original
             k == last'.widget[2] + 1
             blank == after[k + 1]
         IN /\ k <= Len(before)
            /\ Len(after) = Len(before) + 1
            /\ blank.begin = 0
            /\ blank.end = 0
            /\ blank.text = ""
            /\ OneEntryPerLanguage(blank.translations, pre)
            /\ \A e \in 1..Len(blank.translations) : blank.translations[e][2] = <<>>
            /\ \A s \in 1..Len(before) :
                 after[IF s <= k THEN s ELSE s + 1] = before[s]]_vars

\* a segment was just inserted before the end of a line, with a language
\* registered and an association recorded in the document
InsertSegmentAddsBlankSegmentWitness ==
    /\ last.op = "segments"
    /\ last.widget[1] = "insert"
    /\ is_some(lyrics)
    /\ LET doc == unwrap(lyrics)
       IN /\ Len(doc.lyrics.lines[last.line].original) > last.widget[2] + 2
          /\ Len(doc.metadata.translations) >= 1
          /\ AssociationCount(doc) = 1

\* the painted windows: "Lyrics" and "Captions", when shown
PaintedWindows ==
    (IF is_some(lyrics_window) THEN {unwrap(lyrics_window)} ELSE {})
        \cup (IF is_some(captions_window) THEN {unwrap(captions_window)} ELSE {})

\* C4: a line is drawn as active at timestamp t iff line.begin < t < line.end,
\* strictly on both sides, for every line of the document on its own, in the
\* Lyrics window and in the Captions window.
LineActiveIffStrictlyInside ==
    is_some(app_lyrics) =>
        LET lines == unwrap(app_lyrics).lyrics.lines
            t == player_timestamp
        IN \A window \in PaintedWindows :
           \A l \in 1..Len(lines) :
             /\ window[l].branch = "active" <=> (lines[l].begin < t /\ t < lines[l].end)
             /\ t = lines[l].begin => window[l].branch = "inactive"
             /\ t = lines[l].end => window[l].branch = "inactive"

\* both windows are painted; the timestamp is the end of one line, drawn
\* inactive, and strictly inside another, drawn active
LineActiveIffStrictlyInsideWitness ==
    /\ is_some(app_lyrics)
    /\ is_some(lyrics_window)
    /\ is_some(captions_window)
    /\ LET lines == unwrap(app_lyrics).lyrics.lines
       IN \E l, m \in 1..Len(lines) :
            /\ lines[l].begin < lines[l].end
            /\ player_timestamp = lines[l].end
            /\ unwrap(lyrics_window)[l].branch = "inactive"
            /\ unwrap(captions_window)[l].branch = "inactive"
            /\ lines[m].begin < player_timestamp
            /\ player_timestamp < lines[m].end
            /\ unwrap(lyrics_window)[m].branch = "active"
            /\ unwrap(captions_window)[m].branch = "active"

\* the word at 0-based position i of the pair k of line l is drawn highlighted
Highlighted(window, l, k, i) ==
    /\ window[l].branch = "active"
    /\ window[l].translations[k][i + 1] = "ORANGE_500"

\* segment s of the line is strictly around t and records i for the language
SegmentHighlights(line, s, id, i, t) ==
    /\ line.original[s].begin < t
    /\ t < line.original[s].end
    /\ \E e \in EntriesOf(line.original[s].translations, id) :
         Contains(line.original[s].translations[e][2], i)

\* C5: at timestamp t the translated word at position i of language L of a line
\* is highlighted iff the line is active and i is in the association list for L
\* of some segment of that line with segment.begin < t < segment.end; a segment
\* around t in a line that is not active highlights nothing, and a segment of
\* zero duration is never active.
WordHighlightedIffActiveSegmentRecordsIt ==
    is_some(app_lyrics) =>
        LET lines == unwrap(app_lyrics).lyrics.lines
            t == player_timestamp
        IN \A window \in PaintedWindows :
           \A l \in 1..Len(lines) :
             /\ \A k \in 1..Len(lines[l].translations) :
                \A i \in 0..Len(lines[l].translations[k][2]) - 1 :
                  Highlighted(window, l, k, i)
                    <=> /\ lines[l].begin < t
                        /\ t < lines[l].end
                        /\ \E s \in 1..Len(lines[l].original) :
                             SegmentHighlights(lines[l], s, lines[l].translations[k][1], i, t)
             /\ \A s \in 1..Len(lines[l].original) :
                  lines[l].original[s].begin = lines[l].original[s].end
                    => (window[l].branch = "active" => window[l].original[s] /= "ORANGE_500")

\* the Lyrics window is painted and a word of an active line is highlighted,
\* while either a segment around the timestamp that records a word sits in a
\* line that is not active, or a segment of zero duration sits at the timestamp
\* in an active line
WordHighlightedIffActiveSegmentRecordsItWitness ==
    /\ is_some(app_lyrics)
    /\ is_some(lyrics_window)
    /\ LET lines == unwrap(app_lyrics).lyrics.lines
           t == player_timestamp
       IN /\ \E l \in 1..Len(lines) : \E k \in 1..Len(lines[l].translations) :
             \E i \in 0..Len(lines[l].translations[k][2]) - 1 :
               Highlighted(unwrap(lyrics_window), l, k, i)
          /\ \/ \E l \in 1..Len(lines) : \E s \in 1..Len(lines[l].original) :
                  /\ unwrap(lyrics_window)[l].branch = "inactive"
                  /\ SegmentHighlights(lines[l], s, 1, 0, t)
             \/ \E l \in 1..Len(lines) : \E s \in 1..Len(lines[l].original) :
                  /\ unwrap(lyrics_window)[l].branch = "active"
                  /\ lines[l].original[s].begin = t
                  /\ lines[l].original[s].end = t
                  /\ lines[l].original[s].translations /= <<>>

\* the step just taken used buttons of a segment grid in one update
IsSegmentClicksStep ==
    /\ last'.op = "segment_clicks"
    /\ is_some(lyrics)

\* the segments of the line the buttons belong to, before the update
ClickedOriginal == unwrap(lyrics).lyrics.lines[last'.line].original

\* a Vec without the elements at the 0-based positions in rows
WithoutRows(v, rows) ==
    LET keep == SortedSeq({n \in 1..Len(v) : ~Contains(rows, n - 1)})
    IN [n \in 1..Len(keep) |-> v[keep[n]]]

\* C11 as stated: an insertion at a position greater than the number of
\* segments the line has when it is applied does not fail: the new segment is
\* appended at the end.
InsertPastEndIsAppended ==
    [][(/\ IsSegmentClicksStep
        /\ last'.to_move = <<>>
        /\ Len(last'.to_insert) = 1
        /\ last'.to_insert[1] > Len(ClickedOriginal) - Len(last'.to_remove))
         => /\ ~panicked'
            /\ unwrap(lyrics').lyrics.lines[last'.line].original
                 = Append(WithoutRows(ClickedOriginal, last'.to_remove),
                          new_segment(empty_translations(unwrap(lyrics))))]_vars

\* the step just taken used an arrow button of a segment's row
IsMoveSegmentStep ==
    /\ last'.op = "segments"
    /\ last'.widget[1] \in {"up", "down"}
    /\ is_some(lyrics')

\* C12: a move exchanges the segments at the two positions, each with its own
\* timing, text and association lists, and leaves every other position as it
\* was; a segment inserted at index 1 of a line of two and then moved from 1 to
\* 0 gives the order new, first, second.
MoveSegmentExchangesTwo ==
    [][IsMoveSegmentStep =>
         LET pre == unwrap(lyrics)
             post == unwrap(lyrics')
             before == pre.lyrics.lines[last'.line].original
             after == post.lyrics.lines[last'.line].original
             from == last'.widget[2]
             to == IF last'.widget[1] = "up" THEN from - 1 ELSE from + 1
         IN /\ ~panicked'
            /\ Len(after) = Len(before)
            /\ after[to + 1] = before[from + 1]
            /\ after[from + 1] = before[to + 1]
            /\ \A s \in 1..Len(before) : s \notin {from + 1, to + 1} => after[s] = before[s]
            /\ [post.lyrics.lines[last'.line] EXCEPT !.original = <<>>]
                 = [pre.lyrics.lines[last'.line] EXCEPT !.original = <<>>]
            /\ (/\ last.op = "segments"
                /\ last.widget = <<"insert", 0, 0>>
                /\ last.line = last'.line
                /\ last'.widget = <<"up", 1, 0>>
                /\ Len(before) = 3)
                 => /\ before[2] = new_segment(empty_translations(pre))
                    /\ after = <<before[2], before[1], before[3]>>]_vars

\* a segment inserted between the two imported ones was just moved to the front
\* and the imported ones follow in their order, one holding an association
MoveSegmentExchangesTwoWitness ==
    /\ last.op = "segments"
    /\ last.widget = <<"up", 1, 0>>
    /\ is_some(lyrics)
    /\ LET original == unwrap(lyrics).lyrics.lines[last.line].original
       IN /\ Len(original) = 3
          /\ original[1].text = ""
          /\ original[2].text = "a"
          /\ original[3].text = "b"
          /\ AssociationCount(unwrap(lyrics)) = 1

\* C13 as stated: no segment operation aborts on an index, also when the
\* removals, insertions and moves of one update are applied one after another
\* with the indices collected before any of them ran.
SegmentOperationsNeverAbort ==
    [][IsSegmentClicksStep => ~panicked']_vars

\* C14: "+ Add Line" appends after the existing lines a line with begin = end
\* = 0, no text, a uuid no existing line has and exactly one empty entry per
\* language registered then; the existing lines are unchanged.
AddLineAppendsBlankLine ==
    [][last'.op = "add_line" =>
         LET pre == unwrap(lyrics)
             post == unwrap(lyrics')
             n == Len(pre.lyrics.lines)
             line == post.lyrics.lines[n + 1]
         IN /\ post.metadata = pre.metadata
            /\ Len(post.lyrics.lines) = n + 1
            /\ \A l \in 1..n : post.lyrics.lines[l] = pre.lyrics.lines[l]
            /\ line.begin = 0
            /\ line.end = 0
            /\ line.original = <<>>
            /\ \A l \in 1..n : pre.lyrics.lines[l].uuid /= line.uuid
            /\ OneEntryPerLanguage(line.translations, pre)
            /\ \A e \in 1..Len(line.translations) : line.translations[e][2] = <<>>]_vars

\* a line was just added after an imported one while a language was registered
AddLineAppendsBlankLineWitness ==
    /\ last.op = "add_line"
    /\ is_some(lyrics)
    /\ LET doc == unwrap(lyrics)
       IN /\ Len(doc.metadata.translations) >= 1
          /\ Len(doc.lyrics.lines) = 2
          /\ Len(doc.lyrics.lines[1].original) >= 1
          /\ Len(doc.lyrics.lines[2].translations) >= 1

\* C15: the import maps the parsed lines one to one and in order to lines (same
\* begin and end, empty agent, no translations) and the words of each line one
\* to one and in order to segments (same begin, end and text, no association
\* entries); the document registers no language and no agent.
ImportMapsLinesAndWords ==
    [][last'.op = "import" =>
         LET ttml == last'.ttml
             doc == unwrap(lyrics')
         IN /\ doc.metadata.translations = <<>>
            /\ doc.metadata.agents = <<>>
            /\ Len(doc.lyrics.lines) = Len(ttml.lines)
            /\ \A l \in 1..Len(ttml.lines) :
                 LET line == doc.lyrics.lines[l]
                 IN /\ line.begin = ttml.lines[l].start_time
                    /\ line.end = ttml.lines[l].end_time
                    /\ line.agent_id = ""
                    /\ line.translations = <<>>
                    /\ Len(line.original) = Len(ttml.lines[l].words)
                    /\ \A s \in 1..Len(line.original) :
                         /\ line.original[s].begin = ttml.lines[l].words[s].start_time
                         /\ line.original[s].end = ttml.lines[l].words[s].end_time
                         /\ line.original[s].text = ttml.lines[l].words[s].word
                         /\ line.original[s].translations = <<>>]_vars

\* a file of two lines was just imported: the first without words, the second
\* with two
ImportMapsLinesAndWordsWitness ==
    /\ last.op = "import"
    /\ is_some(lyrics)
    /\ LET lines == unwrap(lyrics).lyrics.lines
       IN /\ Len(lines) = 2
          /\ Len(lines[1].original) = 0
          /\ Len(lines[2].original) = 2
          /\ lines[2].original[2].end = MaxTime

\* C16: a file written by the export parses back to the very Document that
\* was exported (same ids, millisecond times, nested translation entries and
\* order), and exporting the Document read from an exported file writes the
\* same file again.
ExportImportRoundTrips ==
    [][/\ (last'.op = "export" /\ last'.outcome = "written")
            => from_json(unwrap(disk')) = lyrics
       /\ (last'.op = "select_lyrics_file" /\ last'.exported
             /\ disk # Some(json("truncated", <<>>)))
            => /\ last'.parsed
               /\ to_json(unwrap(lyrics')) = unwrap(disk)]_vars

\* the exported file is read back over a different Document, one with
\* languages, agents, segments and associations in the file
ExportImportRoundTripsWitness ==
    /\ last.op = "select_lyrics_file"
    /\ last.exported
    /\ is_some(disk)
    /\ lyrics = from_json(unwrap(disk))
    /\ Len(unwrap(lyrics).metadata.translations) = 2
    /\ Len(unwrap(lyrics).metadata.agents) = 2
    /\ \E l \in 1..Len(unwrap(lyrics).lyrics.lines) :
         \E s \in 1..Len(unwrap(lyrics).lyrics.lines[l].original) :
           unwrap(lyrics).lyrics.lines[l].original[s].translations[1][2] = <<1, 0>>


\* a file load that was dispatched and has neither delivered its result nor
\* failed nor been cancelled
InFlight(t) ==
    /\ tasks[t].loader \in {"ttml", "json", "audio"}
    /\ tasks[t].pc \in {"dialog", "picked", "opened", "read"}

\* C17: for each target (the player's audio, the player's lyrics, the
\* editor's lyrics) at most one file load is in flight at any time.
AtMostOneLoadInFlight ==
    \A target \in {"audio", "player", "editor"} :
        Cardinality({t \in Tasks : InFlight(t) /\ tasks[t].target = target}) <= 1

\* C18: once a load has failed (its file could not be opened or read, or did
\* not parse or decode), the loading flag of its target is eventually false
\* again.
FailedLoadClearsFlag ==
    \A t \in Tasks :
        /\ (tasks[t].pc = "failed" /\ tasks[t].target = "editor")
              ~> ~editor_arc_loading_file
        /\ (tasks[t].pc = "failed" /\ tasks[t].target = "player")
              ~> ~arc_loading_lyrics
        /\ (tasks[t].pc = "failed" /\ tasks[t].target = "audio")
              ~> ~arc_loading_file

\* a lyrics load that failed, with nothing of another sender delivered to
\* its target since it was triggered
FailedLyricsLoad(t) ==
    /\ tasks[t].loader \in {"ttml", "json"}
    /\ tasks[t].pc = "failed"
    /\ ~tasks[t].others

\* C19: a lyrics load (TTML or JSON, editor or player) that fails on opening
\* or on parsing leaves the Document of its target exactly as it was when the
\* load was triggered: the failing step changes neither Document and sends
\* nothing on a data channel, and the Document is still the one held at the
\* trigger as long as no other sender's Document was delivered.
FailedLyricsLoadKeepsDocument ==
    [][/\ \A t \in Tasks :
             FailedLyricsLoad(t)' =>
                 TargetDocument(tasks[t].target)' = unwrap(tasks[t].before)'
       /\ \A t \in Tasks :
             (tasks[t].pc # "failed" /\ tasks'[t].pc = "failed")
                 => UNCHANGED <<lyrics, app_lyrics, lyrics_data, editor_lyrics_data>>]_vars

\* a load fails on parsing over a target that already holds a Document, and
\* an update has run since
FailedLyricsLoadKeepsDocumentWitness ==
    \E t \in Tasks :
        /\ FailedLyricsLoad(t)
        /\ unwrap(tasks[t].file).opens
        /\ is_some(unwrap(tasks[t].before))
        /\ TargetDocument(tasks[t].target) = unwrap(tasks[t].before)
        /\ last.op = "update"

\* an audio load that failed, with nothing of another load delivered to the
\* player or queued in the sink since it was triggered
FailedAudioLoad(t) ==
    /\ tasks[t].loader = "audio"
    /\ tasks[t].pc = "failed"
    /\ ~tasks[t].others

\* C20: an audio load that fails (the file cannot be read, or its bytes cannot
\* be decoded) leaves the player's audio state (file data, name, size, total
\* duration, the sink's queued sources) exactly as it was when the load was
\* triggered.
FailedAudioLoadKeepsAudioState ==
    \A t \in Tasks : FailedAudioLoad(t) => AudioState = unwrap(tasks[t].before)

\* an audio load fails on reading, over a player that already holds a decoded
\* file, and the audio state is the one held at the click
FailedAudioLoadKeepsAudioStateWitness ==
    \E t \in Tasks :
        /\ FailedAudioLoad(t)
        /\ ~unwrap(tasks[t].file).reads
        /\ is_some(unwrap(tasks[t].before).file_data)
        /\ AudioState = unwrap(tasks[t].before)
        /\ last.op = "update"

\* C21: a loaded Document is applied only by the update of the user interface
\* when it polls the data channel of its target: no step of a loader task
\* writes the player's or the editor's Document, an update takes at most one
\* message from each data channel and the Document it applies is the whole
\* Document of that message.
DocumentAppliedOnlyByUpdate ==
    [][/\ last'.op # "update" => UNCHANGED <<lyrics, app_lyrics>>
       /\ last'.op = "update" =>
             /\ lyrics_data' = (IF lyrics_data = <<>> THEN <<>> ELSE Tail(lyrics_data))
             /\ app_lyrics' = (IF lyrics_data = <<>> THEN app_lyrics
                               ELSE Some(Head(lyrics_data).data))
             /\ editor_lyrics_data' = (IF editor_lyrics_data = <<>> THEN <<>>
                                       ELSE Tail(editor_lyrics_data))
             /\ lyrics' = (IF editor_lyrics_data = <<>> THEN lyrics
                           ELSE Some(Head(editor_lyrics_data).data))]_vars

\* an update has applied a Document to the player while a second Document
\* stays queued for a later update
DocumentAppliedOnlyByUpdateWitness ==
    /\ last.op = "update"
    /\ lyrics_data # <<>>
    /\ is_some(app_lyrics)
    /\ \A t \in Tasks : tasks[t].pc = "done" /\ tasks[t].target = "player"

\* C22: "Load from editor" hands the player a copy of the editor's Document:
\* the click leaves the editor's Document unchanged and gives the task the
\* Document the editor holds at the click, the update that polls the task's
\* message stores exactly that Document, and no operation of the editor and
\* no step of the task changes the player's Document.
HandOffGivesPlayerACopy ==
    [][/\ last'.op \in {"import", "add_line", "from_editor"} => app_lyrics' = app_lyrics
       /\ last'.op = "from_editor" => lyrics' = lyrics
       /\ last'.op = "update" =>
             /\ lyrics' = lyrics
             /\ \A t \in Tasks : (tasks[t].pc = "idle" /\ tasks'[t].pc # "idle")
                                    => tasks'[t].lyrics = lyrics
             /\ app_lyrics' = (IF lyrics_data = <<>> THEN app_lyrics
                               ELSE tasks[Head(lyrics_data).from].lyrics)]_vars

\* the editor added a line after its Document was handed to the player, and
\* the player still holds the Document of the hand-off
HandOffGivesPlayerACopyWitness ==
    /\ last.op = "add_line"
    /\ is_some(app_lyrics)
    /\ app_lyrics # lyrics
    /\ \E t \in Tasks : tasks[t].pc = "done" /\ tasks[t].lyrics = app_lyrics

\* a step is one update of the player in which no audio file arrives
PlaybackStep == last'.op = "playback" /\ now' = now /\ audio' = audio

\* C23: scrubbing to v while Playing rebases the offset: at the end of that
\* update the timestamp is v plus the clock time elapsed since the previous
\* update; and the update in which Resume is clicked (with no scrub) starts
\* from the timestamp the pause held, without a jump.
ScrubWhilePlayingRebases ==
    [][PlaybackStep =>
         /\ (player_state = "Playing" /\ is_some(last'.input) /\ "Reset" \notin last'.clicked)
               => player_timestamp' = last'.timestamp_ms + (now - last.at)
         /\ (player_state = "Paused" /\ last'.input = None /\ last'.clicked = {"Resume"})
               => player_timestamp' = player_timestamp /\ player_offset' = player_timestamp]_vars

\* a scrub while playing has just moved the timestamp to the scrubbed position
\* plus the time elapsed since the previous update
ScrubWhilePlayingRebasesWitness ==
    /\ last.op = "playback"
    /\ is_some(last.input)
    /\ player_state = "Playing"
    /\ is_some(player_start_instant)
    /\ now > unwrap(player_start_instant)
    /\ player_timestamp > last.timestamp_ms
    /\ player_offset # last.timestamp_ms

TimestampNeverNegative == player_timestamp >= 0 /\ ~panicked

\* Resume was clicked after a scrub below the range, and the seek converted a
\* timestamp that is not negative
TimestampNeverNegativeWitness ==
    /\ last.op = "playback"
    /\ "Resume" \in last.clicked
    /\ is_some(last.input)
    /\ unwrap(last.input) < 0
    /\ player_state = "Playing"
    /\ player_timestamp = 0
    /\ ~panicked

\* C26: while the state stays Playing and the user neither scrubs nor resets,
\* the timestamp of an update is not below the timestamp of the update before.
TimestampNonDecreasingWhilePlaying ==
    [][(PlaybackStep /\ player_state = "Playing" /\ player_state' = "Playing"
          /\ last'.input = None)
         => player_timestamp' >= player_timestamp]_vars

\* the player keeps playing at the end of a file whose total duration is known
TimestampNonDecreasingWhilePlayingWitness ==
    /\ last.op = "playback"
    /\ last.input = None
    /\ player_state = "Playing"
    /\ is_some(audio.total_duration)
    /\ player_timestamp > unwrap(audio.total_duration)

\* C28: player_state changes only from Stopped to Playing on Play, from
\* Playing to Paused on Pause, from Paused to Playing on Resume and from
\* Playing or Paused to Stopped on Reset; Reset zeroes the timestamp and the
\* offset and clears the start instant; the start instant is set whenever the
\* state is Playing.
PlayerStateTransitions ==
    [][/\ player_state' # player_state =>
             /\ last'.op = "playback"
             /\ \/ player_state = "Stopped" /\ player_state' = "Playing"
                      /\ "Play" \in last'.clicked
                \/ player_state = "Playing" /\ player_state' = "Paused"
                      /\ "Pause" \in last'.clicked
                \/ player_state = "Paused" /\ player_state' = "Playing"
                      /\ "Resume" \in last'.clicked
                \/ player_state \in {"Playing", "Paused"} /\ player_state' = "Stopped"
                      /\ "Reset" \in last'.clicked
       /\ (last'.op = "playback" /\ now' = now /\ "Reset" \in last'.clicked) =>
             /\ player_state' = "Stopped"
             /\ player_timestamp' = 0
             /\ player_offset' = 0
             /\ player_start_instant' = None
       /\ player_state' = "Playing" => is_some(player_start_instant')]_vars

\* Reset was clicked after the player had played for a while
PlayerStateTransitionsWitness ==
    /\ last.op = "playback"
    /\ "Reset" \in last.clicked
    /\ last.at > 0
    /\ is_some(audio.total_duration)
    /\ player_state = "Stopped"
    /\ player_start_instant = None

\* C29: Pause followed by Resume with no scrub in between continues from the
\* paused position p: every update of the pause keeps the timestamp at p, and
\* the first timestamp computed after Resume is p plus the clock time elapsed
\* since Resume.
PauseResumeContinues ==
    [][PlaybackStep =>
         /\ (player_state = "Paused" /\ last'.input = None /\ "Reset" \notin last'.clicked)
               => player_timestamp' = player_timestamp
         /\ (player_state = "Playing" /\ last.op = "playback" /\ "Resume" \in last.clicked
               /\ last'.input = None /\ "Reset" \notin last'.clicked)
               => player_timestamp' = player_timestamp + (now - last.at)]_vars

\* the player was paused past the end of a file whose total duration is known
PauseResumeContinuesWitness ==
    /\ last.op = "playback"
    /\ "Pause" \in last.clicked
    /\ player_state = "Paused"
    /\ is_some(audio.total_duration)
    /\ player_timestamp > unwrap(audio.total_duration)

\* C30: whenever show_main_lyrics_window or show_captions_window is true the
\* player holds a lyrics Document.
ShownWindowHasDocument ==
    (show_main_lyrics_window \/ show_captions_window) => is_some(app_lyrics)

\* a checkbox was just flipped and one window is shown, over a Document
ShownWindowHasDocumentWitness ==
    /\ last.op = "player_checkbox"
    /\ show_main_lyrics_window
    /\ ~show_captions_window
    /\ is_some(app_lyrics)
    /\ is_some(lyrics_window)

\* C27: import and export fail cleanly: a malformed file makes the import end
\* in a reported error, and an export whose target cannot be created or
\* written ends in a reported failure, neither aborting the task nor ending
\* without a report.
ImportExportFailCleanly ==
    /\ (last.op = "select_lyrics_file" /\ ~last.parsed) => last.outcome = "reported"
    /\ (last.op = "export" /\ last.target # "writable") => last.outcome = "reported"

\* a malformed Babel Lyrics file was chosen over a Document, and the load
\* ended in a reported error with the Document kept
ImportExportFailCleanlyWitness ==
    /\ last.op = "select_lyrics_file"
    /\ ~last.parsed
    /\ last.outcome = "reported"
    /\ is_some(lyrics)

\* C34: whenever the total duration of the loaded audio is known, the
\* timestamp at the end of an update does not exceed it.
TimestampWithinTotalDuration ==
    (last.op = "playback" /\ is_some(audio.total_duration))
        => player_timestamp <= unwrap(audio.total_duration)

\* an update of a playing player ends with the timestamp at the known total
\* duration, with the clock read after the start
TimestampWithinTotalDurationWitness ==
    /\ last.op = "playback"
    /\ player_state = "Playing"
    /\ is_some(audio.total_duration)
    /\ player_timestamp = unwrap(audio.total_duration)
    /\ now > unwrap(player_start_instant)

\* C35: a line that has no segments keeps zero segments under every operation
\* of the editor: a line (known by its uuid) that is empty before a step and
\* still in the Document after it is empty after it.
EmptyLineStaysEmpty ==
    [][(is_some(lyrics) /\ is_some(lyrics')) =>
         \A l \in 1..Len(unwrap(lyrics).lyrics.lines) :
           \A m \in 1..Len(unwrap(lyrics').lyrics.lines) :
             (/\ unwrap(lyrics).lyrics.lines[l].uuid = unwrap(lyrics').lyrics.lines[m].uuid
              /\ unwrap(lyrics).lyrics.lines[l].original = <<>>)
                => unwrap(lyrics').lyrics.lines[m].original = <<>>]_vars

\* a "+" of another line was just used while a line added by "+ Add Line"
\* has no segments
EmptyLineStaysEmptyWitness ==
    /\ last.op = "segments"
    /\ last.widget[1] = "insert"
    /\ is_some(lyrics)
    /\ Len(unwrap(lyrics).lyrics.lines) = 2
    /\ unwrap(lyrics).lyrics.lines[2].original = <<>>
    /\ Len(unwrap(lyrics).lyrics.lines[1].original) >= 2

\* a lyrics file load that succeeds (the file opens and parses) and whose
\* Document has not yet replaced the Document of its target
UndeliveredLoad(t) ==
    /\ tasks[t].loader \in {"ttml", "json"}
    /\ \/ /\ tasks[t].pc \in {"picked", "opened"}
          /\ unwrap(tasks[t].file).opens
          /\ is_some(parse_lyrics_file(tasks[t].loader, unwrap(tasks[t].file),
                                       FreshLineUuids(unwrap(tasks[t].file))))
       \/ \E i \in 1..Len(lyrics_data) : lyrics_data[i].from = t
       \/ \E i \in 1..Len(editor_lyrics_data) : editor_lyrics_data[i].from = t

\* C33: for a successful lyrics file load the loading flag of the target is
\* not cleared before the loaded Document has replaced the target's Document:
\* in no state is the flag false (the load button enabled again) while the
\* Document of the load is undelivered.
FlagHeldUntilDocumentDelivered ==
    \A t \in Tasks :
        UndeliveredLoad(t) =>
            IF tasks[t].target = "editor" THEN editor_arc_loading_file
            ELSE arc_loading_lyrics

\* a successful load has delivered its Document, the only load dispatched,
\* and the flag of its target is false again
FlagHeldUntilDocumentDeliveredWitness ==
    /\ last.op = "update"
    /\ \E t \in Tasks :
         /\ tasks[t].loader = "json"
         /\ tasks[t].target = "editor"
         /\ tasks[t].pc = "done"
         /\ ~UndeliveredLoad(t)
         /\ is_some(lyrics)
         /\ ~editor_arc_loading_file
         /\ \A u \in Tasks \ {t} : tasks[u].pc = "idle"

\* C31: in every Document the editor holds, delivered by the markup import or
\* by the JSON import and then changed by the editor, every language listed
\* in a line's translations has an association entry in each segment of that
\* line, and the entry lookup of the association checkboxes never fails.
ListedLanguageHasAssociationEntry ==
    /\ ~panicked
    /\ is_some(lyrics) =>
         \A l \in 1..Len(unwrap(lyrics).lyrics.lines) :
           LET line == unwrap(lyrics).lyrics.lines[l]
           IN \A k \in 1..Len(line.translations) :
                \A s \in 1..Len(line.original) :
                  is_some(find_translation(line.original[s].translations,
                                           line.translations[k][1]))

\* a language was added to a Document of the markup import that has segments,
\* and every segment holds its entry
ListedLanguageHasAssociationEntryWitness ==
    /\ last.op = "languages"
    /\ ~panicked
    /\ is_some(lyrics)
    /\ Len(unwrap(lyrics).lyrics.lines) >= 1
    /\ Len(unwrap(lyrics).lyrics.lines[1].translations) >= 1
    /\ Len(unwrap(lyrics).lyrics.lines[1].original) >= 1
    /\ \A s \in 1..Len(unwrap(lyrics).lyrics.lines[1].original) :
         is_some(find_translation(unwrap(lyrics).lyrics.lines[1].original[s].translations,
                                  unwrap(lyrics).lyrics.lines[1].translations[1][1]))

\* C32: whenever the sink holds a source it is playing exactly when
\* player_state is Playing, under every interleaving of update with the loads
\* that append to the sink; and an update in which Play, Resume or Reset was
\* clicked or the timestamp field was edited leaves the queued source seeked
\* to the position that action set (0 for Reset, the value of the field
\* otherwise).
SinkAgreesWithPlayer ==
    [][/\ arc_rodio_sink' # <<>> => (~sink_paused' <=> player_state' = "Playing")
       /\ (PlaybackStep /\ ~panicked' /\ arc_rodio_sink' # <<>>
              /\ (is_some(last'.input) \/ last'.clicked \cap {"Play", "Resume", "Reset"} # {}))
             => sink_seek' = Some(IF "Reset" \in last'.clicked THEN 0
                                  ELSE last'.timestamp_ms)]_vars

\* Play was clicked with a source in the sink: the sink plays from the timestamp
SinkAgreesWithPlayerWitness ==
    /\ last.op = "playback"
    /\ "Play" \in last.clicked
    /\ arc_rodio_sink # <<>>
    /\ player_state = "Playing"
    /\ ~sink_paused
    /\ player_timestamp > 0
    /\ sink_seek = Some(player_timestamp)

====
